---- MODULE Spec2Model ----
(***************************************************************************)
(* Clivra study planner: the priority engine, the schedule generators, the *)
(* readiness estimator and the recovery rebalancer, as state machines      *)
(* whose actions apply the functions of src/src/lib/study-algorithm.ts and *)
(* src/src/hooks/useYoutubeRecommendations.tsx to bounded inputs.          *)
(*                                                                         *)
(* Numbers are JavaScript numbers: a finite value is an exact fraction     *)
(* n/d in lowest terms, and the two non-finite outcomes of a division by   *)
(* zero (Infinity, NaN) are values of their own.  Timestamps are counted   *)
(* in ticks of half a day, so that Math.floor of an age in days is a real  *)
(* floor.                                                                  *)
(*                                                                         *)
(* The database hooks (exams, daily progress, streaks, study sessions,     *)
(* schedule generation) and the completion handler of the timer page are   *)
(* processes: a call of a hook's mutationFn occupies a slot of `calls`,    *)
(* and every awaited request is one step, so that calls interleave as the  *)
(* event loop lets them.  A request whose error the code does not examine  *)
(* may fail silently.  The pomodoro timer is a state machine of its own.   *)
(***************************************************************************)
EXTENDS Integers, Sequences, FiniteSets, TLC

VARIABLES
    component,             \* the component this run calls
    now,                   \* Date.now(), in ticks
    daysUntilExam,         \* days until the exam (priority engine and generators)
    topic,                 \* priority engine: the topic scored
    subjectStrength,       \* priority engine: strength of the topic's subject
    priorityResult,        \* <<>> or <<result of calculateTopicPriority>>
    revisionResult,        \* <<>> or <<result of calculateRevisionPriority>>
    eligibility,           \* <<>> or <<result of checkRevisionEligibility>>
    snapshot,              \* generators: the (subject strength, topic) pairs, in the
                           \* order subjects.forEach / topics.forEach visits them
    availableMinutes,      \* generators: the time budget
    pomodoroWorkMinutes,   \* generators: work part of a pomodoro
    pomodoroBreakMinutes,  \* generators: break part of a pomodoro
    called,                \* generators: "none", or the generator that has run
    packed,                \* revision-aware generator: its schedule before interleaving
    schedule,              \* the schedule the generator returned
    completionPercentage,  \* readiness: share of the material completed
    averageConfidence,     \* readiness: mean confidence of the topics
    consistencyStreak,     \* readiness: days studied in a row
    readiness,             \* <<>> or <<result of calculateExamReadiness>>
    missedMinutes,         \* rebalancer: minutes missed
    remainingDays,         \* rebalancer: days left
    dailyStudyMinutes,     \* rebalancer: planned minutes a day
    maxOverloadPercentage, \* rebalancer: cap of the extra time, in percent
    rebalance,             \* <<>> or <<result of rebalanceAfterMissed>>
    user,                  \* revisions: <<>> or <<id of the signed-in user>>
    topicsTable,           \* revisions: the rows of the table "topics", by id
    revisionHistory,       \* revisions: the rows of the table "revision_history"
    mutations,             \* revisions: the calls of useRecordRevision's mutationFn
    inConfidence,          \* intervals: the confidence passed to the function called
    inRevisionCount,       \* intervals: the revision count passed
    inCompleted,           \* intervals: the flag "completed" passed
    inSkipped,             \* intervals: the flag "skipped" passed
    nextRevisionDays,      \* <<>> or <<result of calculateNextRevision>>
    postRevisionUpdates,   \* <<>> or <<result of calculatePostRevisionUpdates>>
    exams,                 \* backend: the rows of the table "exams"
    dailyProgress,         \* backend: the rows of the table "daily_progress"
    profile,               \* backend: the signed-in user's row of "profiles"
    studySessions,         \* backend: the rows of the table "study_sessions"
    calls,                 \* backend: the calls of the hooks' mutationFn in flight
    ledger,                \* backend: what the calls that ended have done (history)
    mode,                  \* timer: "work", "break" or "longBreak"
    timeLeft,              \* timer: seconds left on the clock
    isRunning,             \* timer: the countdown runs
    pomodorosCompleted     \* timer: work periods counted

sharedVars == <<component, now, daysUntilExam>>
priorityVars == <<topic, subjectStrength, priorityResult, revisionResult, eligibility>>
scheduleVars == <<snapshot, availableMinutes, pomodoroWorkMinutes, pomodoroBreakMinutes,
                  called, packed, schedule>>

readinessVars == <<completionPercentage, averageConfidence, consistencyStreak, readiness>>
rebalanceVars == <<missedMinutes, remainingDays, dailyStudyMinutes, maxOverloadPercentage,
                   rebalance>>

revisionsVars == <<user, topicsTable, revisionHistory, mutations>>

intervalVars == <<inConfidence, inRevisionCount, inCompleted, inSkipped,
                  nextRevisionDays, postRevisionUpdates>>
backendVars == <<exams, dailyProgress, profile, studySessions, calls, ledger>>
timerVars == <<mode, timeLeft, isRunning, pomodorosCompleted>>
appVars == <<intervalVars, backendVars, timerVars>>

vars == <<sharedVars, priorityVars, scheduleVars, readinessVars, rebalanceVars,
          revisionsVars, appVars>>

\* what the actions of one component leave alone
notPriority ==
    <<sharedVars, scheduleVars, readinessVars, rebalanceVars, revisionsVars,
      appVars>>
notSchedule ==
    <<sharedVars, priorityVars, readinessVars, rebalanceVars, revisionsVars,
      appVars>>
notReadiness ==
    <<sharedVars, priorityVars, scheduleVars, rebalanceVars, revisionsVars,
      appVars>>
notRebalance ==
    <<sharedVars, priorityVars, scheduleVars, readinessVars, revisionsVars,
      appVars>>
notRevisions ==
    <<sharedVars, priorityVars, scheduleVars, readinessVars, rebalanceVars,
      appVars>>

algorithmVars == <<priorityVars, scheduleVars, readinessVars, rebalanceVars>>
notIntervals == <<sharedVars, algorithmVars, revisionsVars, backendVars, timerVars>>
notBackend ==
    <<sharedVars, algorithmVars, topicsTable, revisionHistory, mutations, intervalVars,
      timerVars>>
notTimer == <<sharedVars, algorithmVars, revisionsVars, intervalVars, backendVars>>

(***************************************************************************)
(* JavaScript numbers                                                      *)
(***************************************************************************)
Abs(x) == IF x < 0 THEN -x ELSE x

RECURSIVE Gcd(_, _)
Gcd(a, b) == IF b = 0 THEN a ELSE Gcd(b, a % b)

\* the finite number n/d (d > 0), in lowest terms
Frac(n, d) ==
    IF d = 1 THEN [k |-> "fin", n |-> n, d |-> 1]
    ELSE LET g == Gcd(Abs(n), d)
         IN [k |-> "fin", n |-> n \div g, d |-> d \div g]

Num(i) == [k |-> "fin", n |-> i, d |-> 1]
Infinity == [k |-> "inf", n |-> 1, d |-> 1]
NegInfinity == [k |-> "inf", n |-> -1, d |-> 1]
NaN == [k |-> "nan", n |-> 0, d |-> 1]

IsFinite(x) == x.k = "fin"
IsInteger(x) == x.k = "fin" /\ x.d = 1
Sign(x) == IF x.n > 0 THEN 1 ELSE IF x.n < 0 THEN -1 ELSE 0

\* x < y; every comparison with NaN is false
JsLt(x, y) ==
    CASE x.k = "nan" \/ y.k = "nan" -> FALSE
      [] x.k = "inf" /\ y.k = "inf" -> x.n < y.n
      [] x.k = "inf" -> x.n < 0
      [] y.k = "inf" -> y.n > 0
      [] OTHER -> x.n * y.d < y.n * x.d

JsLeq(x, y) ==
    CASE x.k = "nan" \/ y.k = "nan" -> FALSE
      [] x.k = "inf" /\ y.k = "inf" -> x.n <= y.n
      [] x.k = "inf" -> x.n < 0
      [] y.k = "inf" -> y.n > 0
      [] OTHER -> x.n * y.d <= y.n * x.d

JsGeq(x, y) == JsLeq(y, x)
JsGt(x, y) == JsLt(y, x)

JsAdd(x, y) ==
    CASE x.k = "fin" /\ y.k = "fin" -> Frac(x.n * y.d + y.n * x.d, x.d * y.d)
      [] x.k = "nan" \/ y.k = "nan" -> NaN
      [] x.k = "inf" /\ y.k = "inf" -> IF x.n = y.n THEN x ELSE NaN
      [] x.k = "inf" -> x
      [] OTHER -> y

JsNeg(x) == [x EXCEPT !.n = -x.n]

JsSub(x, y) == JsAdd(x, JsNeg(y))

JsMul(x, y) ==
    CASE x.k = "fin" /\ y.k = "fin" -> Frac(x.n * y.n, x.d * y.d)
      [] x.k = "nan" \/ y.k = "nan" -> NaN
      [] OTHER ->
            IF Sign(x) * Sign(y) = 0 THEN NaN
            ELSE IF Sign(x) * Sign(y) > 0 THEN Infinity ELSE NegInfinity

\* x / y: a division by zero is Infinity, -Infinity or (0/0) NaN
JsDiv(x, y) ==
    CASE x.k = "fin" /\ y.k = "fin" /\ y.n > 0 -> Frac(x.n * y.d, x.d * y.n)
      [] x.k = "nan" \/ y.k = "nan" -> NaN
      [] x.k = "inf" /\ y.k = "inf" -> NaN
      [] x.k = "inf" -> IF Sign(y) < 0 THEN JsNeg(x) ELSE x
      [] y.k = "inf" -> Num(0)
      [] y.n = 0 ->
            IF x.n = 0 THEN NaN ELSE IF x.n > 0 THEN Infinity ELSE NegInfinity
      [] OTHER ->
            IF y.n > 0 THEN Frac(x.n * y.d, x.d * y.n)
            ELSE Frac(-(x.n * y.d), x.d * (-y.n))

\* Math.min, Math.max: NaN if either argument is NaN
MathMin(x, y) ==
    IF x.k = "nan" \/ y.k = "nan" THEN NaN ELSE IF JsLeq(x, y) THEN x ELSE y

MathMax(x, y) ==
    IF x.k = "nan" \/ y.k = "nan" THEN NaN ELSE IF JsGeq(x, y) THEN x ELSE y

\* Math.floor, Math.ceil, Math.round (half up): non-finite values pass through
MathFloor(x) == IF x.k = "fin" THEN Num(x.n \div x.d) ELSE x

MathCeil(x) == IF x.k = "fin" THEN Num(-((-x.n) \div x.d)) ELSE x

MathRound(x) == IF x.k = "fin" THEN Num((2 * x.n + x.d) \div (2 * x.d)) ELSE x

(***************************************************************************)
(* Bounds of the inputs                                                    *)
(***************************************************************************)
MaxConfidence == 6        \* confidence_level ranges over 1..MaxConfidence (5 is the documented top)
MaxEstimatedHours == 2    \* estimated_hours ranges over 0..MaxEstimatedHours
MaxCompletedHours == 6    \* completed_hours ranges over 0..MaxCompletedHours

DayTicks == 2             \* one day (1000 * 60 * 60 * 24 ms), in ticks
NowTick == 100            \* the value Date.now() returns

Strengths == {"weak", "average", "strong"}
ExamDays == {-2, 7, 14, 30, 60, 61}

\* ages of a timestamp: half a day in the future, just now, 3, 7, 14 and 20.5 days
AgeTicks == {-1, 0, 3 * DayTicks, 7 * DayTicks, 14 * DayTicks, 20 * DayTicks + 1}
Timestamps == {<<>>} \cup {<<NowTick - a>> : a \in AgeTicks}

(***************************************************************************)
(* Priority engine                                                         *)
(***************************************************************************)
WEIGHTS ==
    [STRENGTH |-> 30, URGENCY |-> 25, CONFIDENCE |-> 25, RECENCY |-> 15, COMPLETION |-> 5]

REVISION_WEIGHTS ==
    [DAYS_SINCE_REVISION |-> 35, CONFIDENCE |-> 30, EXAM_PROXIMITY |-> 20,
     ORIGINAL_DIFFICULTY |-> 15]

STRENGTH_SCORES == [weak |-> 100, average |-> 60, strong |-> 30]

REVISION_CONFIG ==
    [CONFIDENCE_THRESHOLD |-> 3, DAYS_SINCE_REVISION_THRESHOLD |-> 7,
     MAX_REVISION_PERCENTAGE |-> 40, MIN_REVISION_PERCENTAGE |-> 30]

\* Math.floor((Date.now() - new Date(ts).getTime()) / (1000 * 60 * 60 * 24))
DaysSince(ts) == MathFloor(JsDiv(Num(now - ts[1]), Num(DayTicks)))

\* (score / 100) * weight
Weighted(score, weight) == JsMul(JsDiv(score, Num(100)), Num(weight))

\* completionContribution of calculateTopicPriority
completionContribution(t) ==
    LET completionRate ==
            IF t.estimated_hours > 0
            THEN JsDiv(Num(t.completed_hours), Num(t.estimated_hours))
            ELSE Num(0)
        completionScore == JsMul(JsSub(Num(1), completionRate), Num(100))
    IN Weighted(completionScore, WEIGHTS.COMPLETION)

\* totalScore of calculateTopicPriority, before the final clamp
TopicPriorityTotal(t, strength, days) ==
    LET strengthScore == Num(STRENGTH_SCORES[strength])
        urgencyScore ==
            Num(IF days <= 7 THEN 100 ELSE IF days <= 30 THEN 80
                ELSE IF days <= 60 THEN 50 ELSE 30)
        confidenceScore ==
            JsMul(JsDiv(Num(5 - t.confidence_level), Num(4)), Num(100))
        daysSinceStudy == DaysSince(t.last_studied_at)
        recencyScore ==
            IF t.last_studied_at /= <<>>
            THEN Num(IF JsGeq(daysSinceStudy, Num(14)) THEN 100
                     ELSE IF JsGeq(daysSinceStudy, Num(7)) THEN 75
                     ELSE IF JsGeq(daysSinceStudy, Num(3)) THEN 50 ELSE 25)
            ELSE Num(100)
    IN JsAdd(JsAdd(JsAdd(JsAdd(Weighted(strengthScore, WEIGHTS.STRENGTH),
                               Weighted(urgencyScore, WEIGHTS.URGENCY)),
                         Weighted(confidenceScore, WEIGHTS.CONFIDENCE)),
                   Weighted(recencyScore, WEIGHTS.RECENCY)),
             completionContribution(t))

\* a plausible slip: the final clamp is left out
calculateTopicPriorityUnclamped(t, strength, days) ==
    [score |-> MathRound(TopicPriorityTotal(t, strength, days))]

calculateTopicPriority(t, strength, days) ==
    [score |-> MathRound(MathMin(Num(100),
                                 MathMax(Num(0), TopicPriorityTotal(t, strength, days))))]

\* daysSinceRevision of checkRevisionEligibility: Infinity without any date
EligibilityDaysSince(t) ==
    IF t.last_revision_date /= <<>> THEN DaysSince(t.last_revision_date)
    ELSE IF t.last_studied_at /= <<>> THEN DaysSince(t.last_studied_at)
    ELSE Infinity

\* urgencyScore of checkRevisionEligibility
EligibilityUrgency(t, days) ==
    LET hasBeenStudied == t.last_studied_at /= <<>> \/ t.completed_hours > 0
        lowConfidence == t.confidence_level <= REVISION_CONFIG.CONFIDENCE_THRESHOLD
        u1 == IF lowConfidence
              THEN Num((REVISION_CONFIG.CONFIDENCE_THRESHOLD - t.confidence_level + 1) * 20)
              ELSE Num(0)
        daysSinceRevision == EligibilityDaysSince(t)
        needsRevisionByTime ==
            JsGeq(daysSinceRevision, Num(REVISION_CONFIG.DAYS_SINCE_REVISION_THRESHOLD))
        u2 == IF needsRevisionByTime /\ hasBeenStudied
              THEN JsAdd(u1, MathMin(JsMul(daysSinceRevision, Num(5)), Num(50)))
              ELSE u1
        u3 == IF days <= 7 THEN JsAdd(u2, Num(30))
              ELSE IF days <= 14 THEN JsAdd(u2, Num(20)) ELSE u2
    IN MathMin(u3, Num(100))

\* a plausible slip: the studied-at-least-once condition is dropped
checkRevisionEligibilityUngated(t, days) ==
    LET lowConfidence == t.confidence_level <= REVISION_CONFIG.CONFIDENCE_THRESHOLD
        needsRevisionByTime ==
            JsGeq(EligibilityDaysSince(t), Num(REVISION_CONFIG.DAYS_SINCE_REVISION_THRESHOLD))
    IN [isEligible |-> lowConfidence \/ needsRevisionByTime,
        urgencyScore |-> EligibilityUrgency(t, days)]

checkRevisionEligibility(t, days) ==
    LET hasBeenStudied == t.last_studied_at /= <<>> \/ t.completed_hours > 0
        lowConfidence == t.confidence_level <= REVISION_CONFIG.CONFIDENCE_THRESHOLD
        needsRevisionByTime ==
            JsGeq(EligibilityDaysSince(t), Num(REVISION_CONFIG.DAYS_SINCE_REVISION_THRESHOLD))
    IN [isEligible |-> hasBeenStudied /\ (lowConfidence \/ needsRevisionByTime),
        urgencyScore |-> EligibilityUrgency(t, days)]

\* daysSinceRevision of calculateRevisionPriority: 0 without any date
RevisionDaysSince(t) ==
    IF t.last_revision_date /= <<>> THEN DaysSince(t.last_revision_date)
    ELSE IF t.last_studied_at /= <<>> THEN DaysSince(t.last_studied_at)
    ELSE Num(0)

calculateRevisionPriority(t, strength, days) ==
    LET recencyScore == MathMin(JsMul(RevisionDaysSince(t), Num(5)), Num(100))
        confidenceScore ==
            JsMul(JsDiv(Num(5 - t.confidence_level), Num(4)), Num(100))
        proximityScore ==
            Num(IF days <= 7 THEN 100 ELSE IF days <= 14 THEN 80
                ELSE IF days <= 30 THEN 60 ELSE 30)
        difficultyScore == Num(STRENGTH_SCORES[strength])
        totalScore ==
            JsAdd(JsAdd(JsAdd(Weighted(recencyScore, REVISION_WEIGHTS.DAYS_SINCE_REVISION),
                              Weighted(confidenceScore, REVISION_WEIGHTS.CONFIDENCE)),
                        Weighted(proximityScore, REVISION_WEIGHTS.EXAM_PROXIMITY)),
                  Weighted(difficultyScore, REVISION_WEIGHTS.ORIGINAL_DIFFICULTY))
    IN [score |-> MathRound(MathMin(Num(100), MathMax(Num(0), totalScore)))]

(***************************************************************************)
(* The priority engine applied to one topic                                *)
(***************************************************************************)
PriorityTopics ==
    [id : {1},
     confidence_level : 1..MaxConfidence,
     estimated_hours : 0..MaxEstimatedHours,
     completed_hours : 0..MaxCompletedHours,
     last_studied_at : Timestamps,
     last_revision_date : Timestamps,
     revision_count : {0},
     is_completed : {FALSE}]

IdleTopic ==
    [id |-> 1, confidence_level |-> 1, estimated_hours |-> 1, completed_hours |-> 0,
     last_studied_at |-> <<>>, last_revision_date |-> <<>>, revision_count |-> 0,
     is_completed |-> FALSE]

PriorityUnused ==
    /\ topic = IdleTopic
    /\ subjectStrength = "average"
    /\ priorityResult = <<>>
    /\ revisionResult = <<>>
    /\ eligibility = <<>>

ScheduleUnused ==
    /\ snapshot = <<>>
    /\ availableMinutes = 0
    /\ pomodoroWorkMinutes = 1
    /\ pomodoroBreakMinutes = 0
    /\ called = "none"
    /\ packed = <<>>
    /\ schedule = <<>>

ReadinessUnused ==
    /\ completionPercentage = 0
    /\ averageConfidence = Num(1)
    /\ consistencyStreak = 0
    /\ readiness = <<>>

RebalanceUnused ==
    /\ missedMinutes = 0
    /\ remainingDays = 0
    /\ dailyStudyMinutes = 0
    /\ maxOverloadPercentage = 25
    /\ rebalance = <<>>

RevisionsUnused ==
    /\ user = <<>>
    /\ topicsTable = <<>>
    /\ revisionHistory = <<>>
    /\ mutations = <<>>

IntervalsUnused ==
    /\ inConfidence = 1
    /\ inRevisionCount = 0
    /\ inCompleted = FALSE
    /\ inSkipped = FALSE
    /\ nextRevisionDays = <<>>
    /\ postRevisionUpdates = <<>>

BackendUnused ==
    /\ exams = <<>>
    /\ dailyProgress = <<>>
    /\ profile = <<>>
    /\ studySessions = <<>>
    /\ calls = <<>>
    /\ ledger = <<>>

TimerUnused ==
    /\ mode = "work"
    /\ timeLeft = 0
    /\ isRunning = FALSE
    /\ pomodorosCompleted = 0

AppUnused == IntervalsUnused /\ BackendUnused /\ TimerUnused

PriorityInit ==
    /\ AppUnused
    /\ component = "priority"
    /\ now = NowTick
    /\ topic \in PriorityTopics
    /\ subjectStrength \in Strengths
    /\ daysUntilExam \in ExamDays
    /\ priorityResult = <<>>
    /\ revisionResult = <<>>
    /\ eligibility = <<>>
    /\ ScheduleUnused
    /\ ReadinessUnused
    /\ RebalanceUnused
    /\ RevisionsUnused

PriorityIdle ==
    /\ component = "priority"
    /\ priorityResult = <<>>
    /\ revisionResult = <<>>
    /\ eligibility = <<>>

CalculateTopicPriority ==
    /\ PriorityIdle
    /\ priorityResult' = <<calculateTopicPriority(topic, subjectStrength, daysUntilExam)>>
    /\ UNCHANGED <<notPriority, topic, subjectStrength, revisionResult,
                   eligibility>>

CalculateRevisionPriority ==
    /\ PriorityIdle
    /\ revisionResult' = <<calculateRevisionPriority(topic, subjectStrength, daysUntilExam)>>
    /\ UNCHANGED <<notPriority, topic, subjectStrength, priorityResult,
                   eligibility>>

CheckRevisionEligibility ==
    /\ PriorityIdle
    /\ eligibility' = <<checkRevisionEligibility(topic, daysUntilExam)>>
    /\ UNCHANGED <<notPriority, topic, subjectStrength, priorityResult,
                   revisionResult>>

PriorityNext ==
    \/ CalculateTopicPriority
    \/ CalculateRevisionPriority
    \/ CheckRevisionEligibility

SpecPriority == PriorityInit /\ [][PriorityNext]_vars

(***************************************************************************)
(* Schedule generators                                                     *)
(***************************************************************************)
Min(a, b) == IF a <= b THEN a ELSE b

RECURSIVE SumDurations(_)
SumDurations(sessions) ==
    IF sessions = <<>> THEN 0
    ELSE Head(sessions).durationMinutes + SumDurations(Tail(sessions))

\* Array.prototype.sort with (a, b) => b.score - a.score: stable, highest score first
RECURSIVE InsertByScore(_, _)
InsertByScore(sorted, e) ==
    IF sorted = <<>> THEN <<e>>
    ELSE IF JsGt(e.score, Head(sorted).score) THEN <<e>> \o sorted
    ELSE <<Head(sorted)>> \o InsertByScore(Tail(sorted), e)

\* a plausible slip: the candidates are left in the order they were collected
KeepOrder(list) == list

RECURSIVE SortByScore(_)
SortByScore(list) ==
    IF list = <<>> THEN <<>>
    ELSE InsertByScore(SortByScore(SubSeq(list, 1, Len(list) - 1)), list[Len(list)])

\* a plausible slip: completed topics are not filtered out
RECURSIVE CandidatesWithCompleted(_, _)
CandidatesWithCompleted(snap, days) ==
    IF snap = <<>> THEN <<>>
    ELSE LET e == Head(snap)
             el == checkRevisionEligibility(e.topic, days)
             rest == CandidatesWithCompleted(Tail(snap), days)
         IN IF el.isEligible
            THEN <<[topic |-> e.topic, eligible |-> TRUE,
                    score |-> calculateRevisionPriority(e.topic, e.strength, days).score]>>
                 \o rest
            ELSE <<[topic |-> e.topic, eligible |-> FALSE,
                    score |-> calculateTopicPriority(e.topic, e.strength, days).score]>>
                 \o rest

\* subjects.forEach / topics.forEach of the revision-aware generator: the topics
\* that are not completed, each with its eligibility and the score of its group
RECURSIVE Candidates(_, _)
Candidates(snap, days) ==
    IF snap = <<>> THEN <<>>
    ELSE LET e == Head(snap)
             el == checkRevisionEligibility(e.topic, days)
             rest == Candidates(Tail(snap), days)
         IN IF e.topic.is_completed THEN rest
            ELSE IF el.isEligible
            THEN <<[topic |-> e.topic, eligible |-> TRUE,
                    score |-> calculateRevisionPriority(e.topic, e.strength, days).score]>>
                 \o rest
            ELSE <<[topic |-> e.topic, eligible |-> FALSE,
                    score |-> calculateTopicPriority(e.topic, e.strength, days).score]>>
                 \o rest

revisionTopics(cands) == SortByScore(SelectSeq(cands, LAMBDA c : c.eligible))

learningTopics(cands) == SortByScore(SelectSeq(cands, LAMBDA c : ~c.eligible))

revisionBudget(available) ==
    (available * REVISION_CONFIG.MAX_REVISION_PERCENTAGE) \div 100

\* the first loop: revision and recall sessions
RECURSIVE AllocateRevision(_, _, _, _, _, _, _)
AllocateRevision(cands, sched, remainingMinutes, revisionAllocated, budget, work, brk) ==
    IF cands = <<>> \/ remainingMinutes < work \/ revisionAllocated >= budget
    THEN [schedule |-> sched, remainingMinutes |-> remainingMinutes]
    ELSE LET c == Head(cands)
             isQuickRecall == c.topic.revision_count >= 3 /\ c.topic.confidence_level >= 3
             duration == IF isQuickRecall THEN Min(work, remainingMinutes)
                         ELSE Min(work + brk, remainingMinutes)
             sessionType == IF isQuickRecall THEN "recall" ELSE "revision"
             session == [topicId |-> c.topic.id, type |-> sessionType,
                         durationMinutes |-> duration, priorityScore |-> c.score,
                         isRevisionScheduled |-> TRUE]
         IN AllocateRevision(Tail(cands), Append(sched, session),
                             remainingMinutes - duration,
                             IF sessionType /= "recall"
                             THEN revisionAllocated + duration ELSE revisionAllocated,
                             budget, work, brk)

\* a plausible slip: the double session of a new topic is not capped at the time left
RECURSIVE AllocateLearningUncapped(_, _, _, _)
AllocateLearningUncapped(cands, sched, remainingMinutes, sessionDuration) ==
    IF cands = <<>> \/ remainingMinutes < sessionDuration
    THEN [schedule |-> sched, remainingMinutes |-> remainingMinutes]
    ELSE LET c == Head(cands)
             duration == IF c.topic.last_studied_at = <<>>
                         THEN sessionDuration * 2
                         ELSE Min(sessionDuration, remainingMinutes)
             session == [topicId |-> c.topic.id, type |-> "learning",
                         durationMinutes |-> duration, priorityScore |-> c.score,
                         isRevisionScheduled |-> FALSE]
         IN AllocateLearningUncapped(Tail(cands), Append(sched, session),
                                     remainingMinutes - duration, sessionDuration)

\* a plausible slip: a new topic gets a single session like any other
RECURSIVE AllocateLearningSingle(_, _, _, _)
AllocateLearningSingle(cands, sched, remainingMinutes, sessionDuration) ==
    IF cands = <<>> \/ remainingMinutes < sessionDuration
    THEN [schedule |-> sched, remainingMinutes |-> remainingMinutes]
    ELSE LET c == Head(cands)
             duration == Min(sessionDuration, remainingMinutes)
             session == [topicId |-> c.topic.id, type |-> "learning",
                         durationMinutes |-> duration, priorityScore |-> c.score,
                         isRevisionScheduled |-> FALSE]
         IN AllocateLearningSingle(Tail(cands), Append(sched, session),
                                   remainingMinutes - duration, sessionDuration)

\* a plausible slip: the loop goes on as long as a minute is left
RECURSIVE AllocateLearningAnyTime(_, _, _, _)
AllocateLearningAnyTime(cands, sched, remainingMinutes, sessionDuration) ==
    IF cands = <<>> \/ remainingMinutes <= 0
    THEN [schedule |-> sched, remainingMinutes |-> remainingMinutes]
    ELSE LET c == Head(cands)
             duration == IF c.topic.last_studied_at = <<>>
                         THEN Min(sessionDuration * 2, remainingMinutes)
                         ELSE Min(sessionDuration, remainingMinutes)
             session == [topicId |-> c.topic.id, type |-> "learning",
                         durationMinutes |-> duration, priorityScore |-> c.score,
                         isRevisionScheduled |-> FALSE]
         IN AllocateLearningAnyTime(Tail(cands), Append(sched, session),
                                    remainingMinutes - duration, sessionDuration)

\* the second loop: learning sessions
RECURSIVE AllocateLearning(_, _, _, _)
AllocateLearning(cands, sched, remainingMinutes, sessionDuration) ==
    IF cands = <<>> \/ remainingMinutes < sessionDuration
    THEN [schedule |-> sched, remainingMinutes |-> remainingMinutes]
    ELSE LET c == Head(cands)
             duration == IF c.topic.last_studied_at = <<>>
                         THEN Min(sessionDuration * 2, remainingMinutes)
                         ELSE Min(sessionDuration, remainingMinutes)
             session == [topicId |-> c.topic.id, type |-> "learning",
                         durationMinutes |-> duration, priorityScore |-> c.score,
                         isRevisionScheduled |-> FALSE]
         IN AllocateLearning(Tail(cands), Append(sched, session),
                             remainingMinutes - duration, sessionDuration)

\* a plausible slip: one other session, then one revision
RECURSIVE InterleaveOneOther(_, _)
InterleaveOneOther(revisionSessions, otherSessions) ==
    IF revisionSessions = <<>> /\ otherSessions = <<>> THEN <<>>
    ELSE LET o1 == IF otherSessions /= <<>> THEN <<Head(otherSessions)>> ELSE <<>>
             rest1 == IF otherSessions /= <<>> THEN Tail(otherSessions) ELSE <<>>
             r == IF revisionSessions /= <<>> THEN <<Head(revisionSessions)>> ELSE <<>>
             restR == IF revisionSessions /= <<>> THEN Tail(revisionSessions) ELSE <<>>
         IN o1 \o r \o InterleaveOneOther(restR, rest1)

\* the interleaving loop: up to two other sessions, then one revision
RECURSIVE Interleave(_, _)
Interleave(revisionSessions, otherSessions) ==
    IF revisionSessions = <<>> /\ otherSessions = <<>> THEN <<>>
    ELSE LET o1 == IF otherSessions /= <<>> THEN <<Head(otherSessions)>> ELSE <<>>
             rest1 == IF otherSessions /= <<>> THEN Tail(otherSessions) ELSE <<>>
             o2 == IF rest1 /= <<>> THEN <<Head(rest1)>> ELSE <<>>
             rest2 == IF rest1 /= <<>> THEN Tail(rest1) ELSE <<>>
             r == IF revisionSessions /= <<>> THEN <<Head(revisionSessions)>> ELSE <<>>
             restR == IF revisionSessions /= <<>> THEN Tail(revisionSessions) ELSE <<>>
         IN o1 \o o2 \o r \o Interleave(restR, rest2)

\* the local schedule of generateDailySchedule before it is interleaved
PackedSchedule(snap, available, work, brk, days) ==
    LET cands == Candidates(snap, days)
        afterRevision ==
            AllocateRevision(revisionTopics(cands), <<>>, available, 0,
                             revisionBudget(available), work, brk)
    IN AllocateLearning(learningTopics(cands), afterRevision.schedule,
                        afterRevision.remainingMinutes, work + brk).schedule

\* interleavedSchedule, the value generateDailySchedule returns
InterleaveSchedule(sched) ==
    Interleave(SelectSeq(sched, LAMBDA x : x.type = "revision"),
               SelectSeq(sched, LAMBDA x : x.type /= "revision"))

\* the legacy generator's loop over the topics sorted by priority
RECURSIVE LegacyAllocate(_, _, _, _, _, _, _, _, _)
LegacyAllocate(cands, sched, remainingMinutes, learningAllocated, revisionAllocated, recallAllocated, available, work, brk) ==
    IF cands = <<>> \/ remainingMinutes < work + brk THEN sched
    ELSE LET c == Head(cands)
             sessionDuration == work + brk
             \* allocated < availableMinutes * 0.6 / 0.3 / 0.1
             sessionType ==
                 IF c.topic.last_studied_at = <<>> /\ 10 * learningAllocated < 6 * available
                 THEN "learning"
                 ELSE IF c.topic.revision_count > 0 /\ 10 * recallAllocated < 1 * available
                 THEN "recall"
                 ELSE IF 10 * revisionAllocated < 3 * available THEN "revision"
                 ELSE "learning"
             duration ==
                 IF c.topic.last_studied_at = <<>> /\ 10 * learningAllocated < 6 * available
                 THEN Min(sessionDuration * 2, remainingMinutes)
                 ELSE IF sessionType = "recall" THEN Min(work, remainingMinutes)
                 ELSE Min(sessionDuration, remainingMinutes)
             session == [topicId |-> c.topic.id, type |-> sessionType,
                         durationMinutes |-> duration, priorityScore |-> c.score]
         IN LegacyAllocate(Tail(cands), Append(sched, session),
                           remainingMinutes - duration,
                           IF sessionType = "learning"
                           THEN learningAllocated + duration ELSE learningAllocated,
                           IF sessionType = "revision"
                           THEN revisionAllocated + duration ELSE revisionAllocated,
                           IF sessionType = "recall"
                           THEN recallAllocated + duration ELSE recallAllocated,
                           available, work, brk)

\* topicsWithPriority of the legacy generator, before it is sorted
RECURSIVE topicsWithPriority(_, _)
topicsWithPriority(snap, days) ==
    IF snap = <<>> THEN <<>>
    ELSE LET e == Head(snap)
             rest == topicsWithPriority(Tail(snap), days)
         IN IF e.topic.is_completed THEN rest
            ELSE <<[topic |-> e.topic,
                    score |-> calculateTopicPriority(e.topic, e.strength, days).score]>>
                 \o rest

legacyGenerateDailySchedule(snap, available, work, brk, days) ==
    LegacyAllocate(SortByScore(topicsWithPriority(snap, days)), <<>>, available,
                   0, 0, 0, available, work, brk)

(***************************************************************************)
(* The generators applied to a snapshot                                    *)
(***************************************************************************)
MaxTopics == 3            \* topics in a snapshot
MaxAvailable == 6         \* availableMinutes ranges over 0..MaxAvailable

WorkMinutes == {1, 2}
BreakMinutes == {0, 1}
ScheduleExamDays == {7}

Ago(days) == <<NowTick - days * DayTicks>>

\* the shapes of topic a snapshot is made of
TopicPool ==
    { \* never studied, struggling, in a weak subject
      [strength |-> "weak",
       topic |-> [confidence_level |-> 1, estimated_hours |-> 2, completed_hours |-> 0,
                  last_studied_at |-> <<>>, last_revision_date |-> <<>>,
                  revision_count |-> 0, is_completed |-> FALSE]],
      \* never studied, yet with an old revision date and a revision count
      [strength |-> "strong",
       topic |-> [confidence_level |-> 5, estimated_hours |-> 2, completed_hours |-> 0,
                  last_studied_at |-> <<>>, last_revision_date |-> Ago(10),
                  revision_count |-> 3, is_completed |-> FALSE]],
      \* studied yesterday, confident
      [strength |-> "average",
       topic |-> [confidence_level |-> 4, estimated_hours |-> 2, completed_hours |-> 1,
                  last_studied_at |-> Ago(1), last_revision_date |-> <<>>,
                  revision_count |-> 0, is_completed |-> FALSE]],
      \* studied yesterday, low confidence
      [strength |-> "weak",
       topic |-> [confidence_level |-> 2, estimated_hours |-> 2, completed_hours |-> 1,
                  last_studied_at |-> Ago(1), last_revision_date |-> <<>>,
                  revision_count |-> 0, is_completed |-> FALSE]],
      \* studied ten days ago, confident, revised three times
      [strength |-> "strong",
       topic |-> [confidence_level |-> 4, estimated_hours |-> 2, completed_hours |-> 2,
                  last_studied_at |-> Ago(10), last_revision_date |-> <<>>,
                  revision_count |-> 3, is_completed |-> FALSE]],
      \* hours completed but no date at all, mastered
      [strength |-> "strong",
       topic |-> [confidence_level |-> 5, estimated_hours |-> 2, completed_hours |-> 1,
                  last_studied_at |-> <<>>, last_revision_date |-> <<>>,
                  revision_count |-> 0, is_completed |-> FALSE]],
      \* completed
      [strength |-> "weak",
       topic |-> [confidence_level |-> 2, estimated_hours |-> 2, completed_hours |-> 2,
                  last_studied_at |-> Ago(8), last_revision_date |-> <<>>,
                  revision_count |-> 1, is_completed |-> TRUE]] }

NeverStudiedTopic(t) == t.last_studied_at = <<>> /\ t.completed_hours = 0

\* an hour a day, the default pomodoro of 25 + 5 minutes, an exam in a month
HourWithDefaults ==
    /\ daysUntilExam = 30
    /\ availableMinutes = 60
    /\ pomodoroWorkMinutes = 25
    /\ pomodoroBreakMinutes = 5

ScheduleInit ==
    /\ AppUnused
    /\ component = "schedule"
    /\ now = NowTick
    /\ PriorityUnused
    /\ snapshot = <<>>
    /\ \/ /\ daysUntilExam \in ScheduleExamDays
          /\ availableMinutes \in 0..MaxAvailable
          /\ pomodoroWorkMinutes \in WorkMinutes
          /\ pomodoroBreakMinutes \in BreakMinutes
       \/ HourWithDefaults
    /\ called = "none"
    /\ packed = <<>>
    /\ schedule = <<>>
    /\ ReadinessUnused
    /\ RebalanceUnused
    /\ RevisionsUnused

\* the generators called with little or no time, a long pomodoro, and an exam
\* that is today or has passed
EdgeExamDays == {-2, 0}
EdgeAvailable == {0, 1, 3}
EdgeWorkMinutes == {1, 2, 4}

ScheduleEdgeInit ==
    /\ AppUnused
    /\ component = "schedule"
    /\ now = NowTick
    /\ daysUntilExam \in EdgeExamDays
    /\ PriorityUnused
    /\ snapshot = <<>>
    /\ availableMinutes \in EdgeAvailable
    /\ pomodoroWorkMinutes \in EdgeWorkMinutes
    /\ pomodoroBreakMinutes \in BreakMinutes
    /\ called = "none"
    /\ packed = <<>>
    /\ schedule = <<>>
    /\ ReadinessUnused
    /\ RebalanceUnused
    /\ RevisionsUnused

\* the caller adds a topic to the snapshot; its id is its position
AddTopic ==
    /\ component = "schedule"
    /\ called = "none"
    /\ Len(snapshot) < MaxTopics
    /\ \E e \in TopicPool :
          snapshot' = Append(snapshot,
                             [strength |-> e.strength,
                              topic |-> [id |-> Len(snapshot) + 1] @@ e.topic])
    /\ UNCHANGED <<notSchedule, availableMinutes, pomodoroWorkMinutes,
                   pomodoroBreakMinutes, called, packed, schedule>>

GenerateDailySchedule ==
    /\ component = "schedule"
    /\ called = "none"
    /\ called' = "generateDailySchedule"
    /\ packed' = PackedSchedule(snapshot, availableMinutes, pomodoroWorkMinutes,
                                pomodoroBreakMinutes, daysUntilExam)
    /\ schedule' = InterleaveSchedule(packed')
    /\ UNCHANGED <<notSchedule, snapshot, availableMinutes,
                   pomodoroWorkMinutes, pomodoroBreakMinutes>>

LegacyGenerateDailySchedule ==
    /\ component = "schedule"
    /\ called = "none"
    /\ called' = "legacy"
    /\ schedule' = legacyGenerateDailySchedule(snapshot, availableMinutes,
                                               pomodoroWorkMinutes, pomodoroBreakMinutes,
                                               daysUntilExam)
    /\ UNCHANGED <<notSchedule, snapshot, availableMinutes,
                   pomodoroWorkMinutes, pomodoroBreakMinutes, packed>>

ScheduleNext ==
    \/ AddTopic
    \/ GenerateDailySchedule
    \/ LegacyGenerateDailySchedule

SpecSchedule == ScheduleInit /\ [][ScheduleNext]_vars

SpecScheduleEdge == ScheduleEdgeInit /\ [][ScheduleNext]_vars

(***************************************************************************)
(* The interleaving loop on longer schedules                               *)
(***************************************************************************)
MaxSessions == 5          \* sessions in a packed schedule

\* what the two loops can leave in schedule: sessions of the revision loop
\* ("revision" or "recall", in any mix), then "learning" sessions
RECURSIVE PackedShapes(_)
PackedShapes(n) ==
    IF n = 0 THEN {<<>>}
    ELSE LET shorter == PackedShapes(n - 1)
         IN shorter
            \cup {Append(p, "learning") : p \in {q \in shorter : Len(q) = n - 1}}
            \cup {Append(p, ty) :
                    p \in {q \in shorter : /\ Len(q) = n - 1
                                           /\ \A k \in 1..Len(q) : q[k] /= "learning"},
                    ty \in {"revision", "recall"}}

SessionsOfShape(shape) ==
    [k \in 1..Len(shape) |->
        [topicId |-> k, type |-> shape[k], durationMinutes |-> 1,
         priorityScore |-> Num(50), isRevisionScheduled |-> shape[k] /= "learning"]]

InterleaveInit ==
    /\ AppUnused
    /\ component = "interleave"
    /\ now = NowTick
    /\ daysUntilExam = 30
    /\ PriorityUnused
    /\ snapshot = <<>>
    /\ availableMinutes = MaxSessions
    /\ pomodoroWorkMinutes = 1
    /\ pomodoroBreakMinutes = 0
    /\ called = "none"
    /\ packed \in {SessionsOfShape(shape) : shape \in PackedShapes(MaxSessions)}
    /\ schedule = <<>>
    /\ ReadinessUnused
    /\ RebalanceUnused
    /\ RevisionsUnused

\* the last part of generateDailySchedule, from the filters to the return
InterleaveSessions ==
    /\ component = "interleave"
    /\ called = "none"
    /\ called' = "interleaved"
    /\ schedule' = InterleaveSchedule(packed)
    /\ UNCHANGED <<notSchedule, snapshot, availableMinutes, pomodoroWorkMinutes,
                   pomodoroBreakMinutes, packed>>

\* the whole generator on short snapshots, its last part on longer schedules
InterleavingInit == ScheduleInit \/ InterleaveInit

InterleavingNext ==
    \/ AddTopic
    \/ GenerateDailySchedule
    \/ InterleaveSessions

SpecInterleaving == InterleavingInit /\ [][InterleavingNext]_vars

(***************************************************************************)
(* Readiness estimator                                                     *)
(***************************************************************************)
\* Math.round of a double that was computed with the weights 0.35, 0.15 and 0.1,
\* none of which is a double exactly: the operations before it leave the double a
\* rounding error away from the exact value x, so a value that is exactly half-way
\* between two integers comes out just under or just over the half, and rounds
\* down or up; every other value is further from a half than the error reaches.
MathRoundDouble(x) ==
    IF x.k = "fin" /\ x.d = 2 THEN {MathFloor(x), MathRound(x)} ELSE {MathRound(x)}

\* the status of a percentage
readinessStatus(percentage) ==
    IF JsGeq(percentage, Num(80)) THEN "exam_ready"
    ELSE IF JsGeq(percentage, Num(60)) THEN "almost_ready"
    ELSE IF JsGeq(percentage, Num(35)) THEN "improving"
    ELSE "not_ready"

normalizedStreak(streak) == MathMin(JsDiv(Num(streak), Num(14)), Num(1))

normalizedTime(days) ==
    IF days > 0 THEN MathMin(JsDiv(Num(days), Num(30)), Num(1)) ELSE Num(0)

\* a plausible slip: the confidence is normalized from its lowest value 1, (c - 1) / 4
ExamReadinessFromOne(completion, confidence, streak, time) ==
    LET normalizedCompletion == JsDiv(Num(completion), Num(100))
        normalizedConfidence == JsDiv(JsSub(confidence, Num(1)), Num(4))
        readinessScore ==
            JsAdd(JsAdd(JsAdd(JsMul(normalizedCompletion, Frac(4, 10)),
                              JsMul(normalizedConfidence, Frac(35, 100))),
                        JsMul(normalizedStreak(streak), Frac(15, 100))),
                  JsMul(time, Frac(1, 10)))
    IN {[status |-> readinessStatus(percentage), percentage |-> percentage] :
            percentage \in MathRoundDouble(JsMul(readinessScore, Num(100)))}

\* calculateExamReadiness, given the normalized time factor: the results the
\* call can return
ExamReadiness(completion, confidence, streak, time) ==
    LET completionWeight == Frac(4, 10)
        confidenceWeight == Frac(35, 100)
        consistencyWeight == Frac(15, 100)
        timeWeight == Frac(1, 10)
        normalizedCompletion == JsDiv(Num(completion), Num(100))
        normalizedConfidence == JsDiv(confidence, Num(5))
        readinessScore ==
            JsAdd(JsAdd(JsAdd(JsMul(normalizedCompletion, completionWeight),
                              JsMul(normalizedConfidence, confidenceWeight)),
                        JsMul(normalizedStreak(streak), consistencyWeight)),
                  JsMul(time, timeWeight))
    IN {[status |-> readinessStatus(percentage), percentage |-> percentage] :
            percentage \in MathRoundDouble(JsMul(readinessScore, Num(100)))}

\* a plausible slip: an exam that has passed counts as all the time in the world
calculateExamReadinessPastExam(completion, confidence, streak, days) ==
    ExamReadiness(completion, confidence, streak,
                  IF days > 0 THEN MathMin(JsDiv(Num(days), Num(30)), Num(1)) ELSE Num(1))

calculateExamReadiness(completion, confidence, streak, days) ==
    ExamReadiness(completion, confidence, streak, normalizedTime(days))

CompletionPercentages == {-10, 0, 1, 33, 50, 99, 100, 130}
\* averageConfidence, in tenths
ConfidenceTenths == {0, 10, 25, 33, 50, 60}
Streaks == {-3, 0, 1, 7, 13, 14, 15, 30}
ReadinessExamDays == {-5, 0, 1, 15, 29, 30, 31, 90}

ReadinessInit ==
    /\ AppUnused
    /\ component = "readiness"
    /\ now = NowTick
    /\ daysUntilExam \in ReadinessExamDays
    /\ completionPercentage \in CompletionPercentages
    /\ averageConfidence \in {Frac(c, 10) : c \in ConfidenceTenths}
    /\ consistencyStreak \in Streaks
    /\ readiness = <<>>
    /\ PriorityUnused
    /\ ScheduleUnused
    /\ RebalanceUnused
    /\ RevisionsUnused

CalculateExamReadiness ==
    /\ component = "readiness"
    /\ readiness = <<>>
    /\ \E result \in calculateExamReadiness(completionPercentage, averageConfidence,
                                            consistencyStreak, daysUntilExam) :
          readiness' = <<result>>
    /\ UNCHANGED <<notReadiness, completionPercentage, averageConfidence,
                   consistencyStreak>>

ReadinessNext == CalculateExamReadiness

SpecReadiness == ReadinessInit /\ [][ReadinessNext]_vars

(***************************************************************************)
(* Recovery rebalancer                                                     *)
(***************************************************************************)
maxExtraPerDay(daily, pct) == MathRound(JsMul(Num(daily), JsDiv(Num(pct), Num(100))))

rebalanceAfterMissed(missed, remaining, daily, pct) ==
    IF remaining <= 0
    THEN [extraMinutesPerDay |-> Num(0), daysToRecover |-> Num(0)]
    ELSE LET idealRecoveryDays == MathCeil(JsDiv(Num(missed), maxExtraPerDay(daily, pct)))
             daysToRecover == MathMin(idealRecoveryDays, Num(remaining))
             extraMinutesPerDay == MathRound(JsDiv(Num(missed), daysToRecover))
             cappedExtra == MathMin(extraMinutesPerDay, maxExtraPerDay(daily, pct))
         IN [extraMinutesPerDay |-> cappedExtra, daysToRecover |-> daysToRecover]

MaxMissed == 12           \* missedMinutes ranges over 0..MaxMissed
MaxRemainingDays == 4     \* remainingDays ranges over -1..MaxRemainingDays
MaxDaily == 12            \* dailyStudyMinutes ranges over 0..MaxDaily
OverloadPercentages == {0, 25, 100}

RebalanceInit ==
    /\ AppUnused
    /\ component = "rebalance"
    /\ now = NowTick
    /\ daysUntilExam = 30
    /\ missedMinutes \in 0..MaxMissed
    /\ remainingDays \in -1..MaxRemainingDays
    /\ dailyStudyMinutes \in 0..MaxDaily
    /\ maxOverloadPercentage \in OverloadPercentages
    /\ rebalance = <<>>
    /\ PriorityUnused
    /\ ScheduleUnused
    /\ ReadinessUnused
    /\ RevisionsUnused

RebalanceAfterMissed ==
    /\ component = "rebalance"
    /\ rebalance = <<>>
    /\ rebalance' = <<rebalanceAfterMissed(missedMinutes, remainingDays, dailyStudyMinutes,
                                           maxOverloadPercentage)>>
    /\ UNCHANGED <<notRebalance, missedMinutes, remainingDays, dailyStudyMinutes,
                   maxOverloadPercentage>>

RebalanceNext == RebalanceAfterMissed

SpecRebalance == RebalanceInit /\ [][RebalanceNext]_vars

(***************************************************************************)
(* Recording a revision (src/src/hooks/useRevisions.tsx)                   *)
(***************************************************************************)
Max(a, b) == IF a >= b THEN a ELSE b

\* baseIntervals[intervalIndex] * (confidenceLevel / 3), rounded; an index below 0
\* reads undefined, and undefined * x is NaN
roundedInterval(confidence, revisionCount) ==
    LET baseIntervals == <<1, 3, 7, 14, 30, 60>>
        confidenceMultiplier == JsDiv(confidence, Num(3))
        intervalIndex == Min(revisionCount, Len(baseIntervals) - 1)
    IN IF intervalIndex < 0 THEN NaN
       ELSE MathRound(JsMul(Num(baseIntervals[intervalIndex + 1]), confidenceMultiplier))

calculateNextRevision(confidenceLevel, revisionCount) ==
    roundedInterval(Num(confidenceLevel), revisionCount)

calculatePostRevisionUpdates(confidenceBefore, revisionCount, completed, skipped) ==
    LET baseConfidence == IF completed THEN confidenceBefore + 1 ELSE confidenceBefore - 1
        adjustedConfidence == IF skipped THEN confidenceBefore - 1 ELSE baseConfidence
        newConfidence == Min(5, Max(1, adjustedConfidence))
    IN [nextRevisionDays |->
            IF skipped THEN Num(1)
            ELSE calculateNextRevision(newConfidence, Max(0, revisionCount + 1)),
        confidenceDelta |-> newConfidence - confidenceBefore,
        newConfidence |-> newConfidence]

MaxRecorded == 2          \* calls of the mutation that get as far as the insert

MutationSlots == {1, 2}   \* calls of mutateAsync that can be in flight together
TopicIds == {1, 2}
StoredConfidences == {3}
StoredRevisionCounts == {0, 2}

\* the variables a caller passes to mutateAsync (sessionId, revisionType and
\* notes are only copied into the history row and are left out)
MutationVariables ==
    [topicId : TopicIds, confidenceBefore : {1, 5}, confidenceAfter : {3},
     completed : BOOLEAN, skipped : BOOLEAN]

IdleMutation == [pc |-> "idle", variables |-> <<>>]

\* calls that have not reached their insert yet
Pending == {m \in MutationSlots : mutations[m].pc = "insert"}

RevisionsInit ==
    /\ AppUnused
    /\ component = "revisions"
    /\ now = NowTick
    /\ daysUntilExam = 30
    /\ user \in {<<>>, <<"u1">>}
    /\ \E c \in StoredConfidences, rc \in StoredRevisionCounts :
          topicsTable =
              [id \in TopicIds |->
                  [user_id |-> IF id = 1 THEN "u1" ELSE "u2",
                   confidence_level |-> c, revision_count |-> rc,
                   last_revision_date |-> <<>>, revision_confidence_delta |-> 0,
                   next_revision_at |-> <<>>]]
    /\ revisionHistory = <<>>
    /\ mutations = [m \in MutationSlots |-> IdleMutation]
    /\ PriorityUnused
    /\ ScheduleUnused
    /\ ReadinessUnused
    /\ RebalanceUnused

\* mutateAsync(variables): mutationFn runs up to its first await
Mutate(m) ==
    /\ component = "revisions"
    /\ mutations[m].pc = "idle"
    /\ Len(revisionHistory) + Cardinality(Pending) < MaxRecorded
    /\ \E v \in MutationVariables :
          mutations' = [mutations EXCEPT
                           ![m] = [pc |-> IF user = <<>> THEN "error" ELSE "insert",
                                   variables |-> <<v>>]]
    /\ UNCHANGED <<notRevisions, user, topicsTable, revisionHistory>>

\* the insert into revision_history answers: an error is thrown, a row goes on
InsertRevisionHistory(m) ==
    /\ component = "revisions"
    /\ mutations[m].pc = "insert"
    /\ LET v == mutations[m].variables[1]
       IN \E error \in BOOLEAN :
             IF error
             THEN /\ mutations' = [mutations EXCEPT ![m].pc = "error"]
                  /\ UNCHANGED revisionHistory
             ELSE /\ revisionHistory' =
                         Append(revisionHistory,
                                [user_id |-> user[1], topic_id |-> v.topicId,
                                 confidence_before |-> v.confidenceBefore,
                                 confidence_after |-> v.confidenceAfter,
                                 completed |-> v.completed, skipped |-> v.skipped])
                  /\ mutations' = [mutations EXCEPT ![m].pc = "update"]
    /\ UNCHANGED <<notRevisions, user, topicsTable>>

\* the update of topics answers; its error is not looked at.  revision_count is
\* undefined in the object sent, so the column is not part of the update.
UpdateTopic(m) ==
    /\ component = "revisions"
    /\ mutations[m].pc = "update"
    /\ LET v == mutations[m].variables[1]
           updates == calculatePostRevisionUpdates(v.confidenceBefore, 0, v.completed,
                                                   v.skipped)
       IN \E failed \in BOOLEAN :
             topicsTable' =
                 IF failed THEN topicsTable
                 ELSE [id \in TopicIds |->
                          IF id = v.topicId /\ topicsTable[id].user_id = user[1]
                          THEN [topicsTable[id] EXCEPT
                                   !.last_revision_date = <<now>>,
                                   !.revision_confidence_delta = updates.confidenceDelta,
                                   !.confidence_level = updates.newConfidence,
                                   !.next_revision_at =
                                       <<now + updates.nextRevisionDays.n * DayTicks>>]
                          ELSE topicsTable[id]]
    /\ mutations' = [mutations EXCEPT ![m].pc = "success"]
    /\ UNCHANGED <<notRevisions, user, revisionHistory>>

\* onSuccess or onError has run (queries invalidated, toast shown)
Settle(m) ==
    /\ component = "revisions"
    /\ mutations[m].pc \in {"success", "error"}
    /\ mutations' = [mutations EXCEPT ![m] = IdleMutation]
    /\ UNCHANGED <<notRevisions, user, topicsTable, revisionHistory>>

RevisionsNext ==
    \E m \in MutationSlots :
        \/ Mutate(m)
        \/ InsertRevisionHistory(m)
        \/ UpdateTopic(m)
        \/ Settle(m)

SpecRevisions == RevisionsInit /\ [][RevisionsNext]_vars

(***************************************************************************)
(* Eligibility on its own and inside the revision-aware generator          *)
(***************************************************************************)
EligibilityInit == PriorityInit \/ ScheduleInit

EligibilityNext ==
    \/ CheckRevisionEligibility
    \/ AddTopic
    \/ GenerateDailySchedule

SpecEligibility == EligibilityInit /\ [][EligibilityNext]_vars

(***************************************************************************)
(* The revision intervals, called on their own                             *)
(***************************************************************************)
\* calculatePostRevisionUpdates of src/src/hooks/useYoutubeRecommendations.tsx
recommendationsPostRevisionUpdates(currentConfidence, revisionCount, completed, skipped) ==
    LET confidenceDelta ==
            IF completed THEN MathMin(Num(1), Num(5 - currentConfidence))
            ELSE IF skipped THEN Frac(-1, 2)
            ELSE Num(0)
        newConfidence ==
            IF completed THEN MathMin(Num(5), JsAdd(Num(currentConfidence), confidenceDelta))
            ELSE IF skipped
            THEN MathMax(Num(1), JsSub(Num(currentConfidence), Frac(1, 2)))
            ELSE Num(currentConfidence)
    IN [newConfidence |-> MathRound(newConfidence),
        confidenceDelta |-> confidenceDelta,
        nextRevisionDays |->
            roundedInterval(newConfidence,
                            revisionCount + (IF completed THEN 1 ELSE 0))]

MaxRevisionCount == 7     \* revisionCount ranges over -1..MaxRevisionCount

IntervalsInit ==
    /\ component = "intervals"
    /\ now = NowTick
    /\ daysUntilExam = 30
    /\ PriorityUnused
    /\ ScheduleUnused
    /\ ReadinessUnused
    /\ RebalanceUnused
    /\ RevisionsUnused
    /\ inConfidence \in 0..MaxConfidence
    /\ inRevisionCount \in -1..MaxRevisionCount
    /\ inCompleted \in BOOLEAN
    /\ inSkipped \in BOOLEAN
    /\ nextRevisionDays = <<>>
    /\ postRevisionUpdates = <<>>
    /\ BackendUnused
    /\ TimerUnused

CalculateNextRevision ==
    /\ component = "intervals"
    /\ nextRevisionDays = <<>>
    /\ nextRevisionDays' = <<calculateNextRevision(inConfidence, inRevisionCount)>>
    /\ UNCHANGED <<notIntervals, inConfidence, inRevisionCount, inCompleted, inSkipped,
                   postRevisionUpdates>>

\* the function of src/src/lib/study-algorithm.ts
CalculatePostRevisionUpdates ==
    /\ component = "intervals"
    /\ postRevisionUpdates = <<>>
    /\ LET r == calculatePostRevisionUpdates(inConfidence, inRevisionCount,
                                             inCompleted, inSkipped)
       IN postRevisionUpdates' =
              <<[source |-> "study-algorithm",
                 newConfidence |-> Num(r.newConfidence),
                 confidenceDelta |-> Num(r.confidenceDelta),
                 nextRevisionDays |-> r.nextRevisionDays]>>
    /\ UNCHANGED <<notIntervals, inConfidence, inRevisionCount, inCompleted, inSkipped,
                   nextRevisionDays>>

\* the function of the same name of src/src/hooks/useYoutubeRecommendations.tsx
RecommendationsPostRevisionUpdates ==
    /\ component = "intervals"
    /\ postRevisionUpdates = <<>>
    /\ postRevisionUpdates' =
          <<[source |-> "useYoutubeRecommendations"]
            @@ recommendationsPostRevisionUpdates(inConfidence, inRevisionCount,
                                                 inCompleted, inSkipped)>>
    /\ UNCHANGED <<notIntervals, inConfidence, inRevisionCount, inCompleted, inSkipped,
                   nextRevisionDays>>

IntervalsNext ==
    \/ CalculateNextRevision
    \/ CalculatePostRevisionUpdates
    \/ RecommendationsPostRevisionUpdates

SpecIntervals == IntervalsInit /\ [][IntervalsNext]_vars

(***************************************************************************)
(* The Pomodoro timer (src/unnamed/part_005).  The clock is counted in     *)
(* steps of a minute: one step of the countdown stands for sixty calls of  *)
(* the interval's callback.                                                *)
(***************************************************************************)
MaxPomodoros == 8         \* work periods the countdown may count

getModeSeconds(nextMode) ==
    IF nextMode = "work" THEN pomodoroWorkMinutes
    ELSE IF nextMode = "break" THEN pomodoroBreakMinutes
    ELSE 15

\* the clock after a period has run out: the updater of setTimeLeft returns 0
\* and, while it runs, setModeAndReset sets the clock of the next mode; which
\* of the two the next render shows is left open
TimeLeftAfterZero(nextMode) == {0, getModeSeconds(nextMode)}

TimerInit ==
    /\ component = "timer"
    /\ now = NowTick
    /\ daysUntilExam = 30
    /\ PriorityUnused
    /\ snapshot = <<>>
    /\ availableMinutes = 0
    /\ pomodoroWorkMinutes \in WorkMinutes
    /\ pomodoroBreakMinutes \in BreakMinutes
    /\ called = "none"
    /\ packed = <<>>
    /\ schedule = <<>>
    /\ ReadinessUnused
    /\ RebalanceUnused
    /\ RevisionsUnused
    /\ IntervalsUnused
    /\ BackendUnused
    /\ mode = "work"
    /\ timeLeft = getModeSeconds("work")
    /\ isRunning = FALSE
    /\ pomodorosCompleted = 0

\* toggleTimer: start or pause
ToggleTimer ==
    /\ component = "timer"
    /\ isRunning' = ~isRunning
    /\ UNCHANGED <<notTimer, mode, timeLeft, pomodorosCompleted>>

\* the callback of setInterval, installed while isRunning and timeLeft > 0
Countdown ==
    /\ component = "timer"
    /\ isRunning
    /\ timeLeft > 0
    /\ IF timeLeft <= 1
       THEN /\ IF mode = "work"
               THEN /\ pomodorosCompleted < MaxPomodoros
                    /\ LET nextCount == pomodorosCompleted + 1
                           nextMode == IF nextCount % 4 = 0 THEN "longBreak" ELSE "break"
                       IN /\ pomodorosCompleted' = nextCount
                          /\ mode' = nextMode
                          /\ timeLeft' \in TimeLeftAfterZero(nextMode)
               ELSE /\ mode' = "work"
                    /\ timeLeft' \in TimeLeftAfterZero("work")
                    /\ UNCHANGED pomodorosCompleted
            /\ isRunning' = FALSE
       ELSE /\ timeLeft' = timeLeft - 1
            /\ UNCHANGED <<mode, isRunning, pomodorosCompleted>>
    /\ UNCHANGED notTimer

ResetTimer ==
    /\ component = "timer"
    /\ isRunning' = FALSE
    /\ timeLeft' = getModeSeconds(mode)
    /\ UNCHANGED <<notTimer, mode, pomodorosCompleted>>

SkipToNext ==
    /\ component = "timer"
    /\ isRunning' = FALSE
    /\ mode' = IF mode = "work"
               THEN IF (pomodorosCompleted + 1) % 4 = 0 THEN "longBreak" ELSE "break"
               ELSE "work"
    /\ timeLeft' = getModeSeconds(mode')
    /\ UNCHANGED <<notTimer, pomodorosCompleted>>

\* the end of handleCompleteSession, once its four writes have succeeded
ResetTimerState ==
    /\ pomodorosCompleted' = 0
    /\ mode' = "work"
    /\ timeLeft' = getModeSeconds("work")
    /\ UNCHANGED isRunning

\* handleCompleteSession as the timer sees it; the button that opens its dialog
\* is shown once a work period was counted or minutes were studied
SessionCompleted ==
    /\ component = "timer"
    /\ pomodorosCompleted > 0 \/ mode /= "work"
    /\ ResetTimerState
    /\ UNCHANGED notTimer

TimerNext ==
    \/ ToggleTimer
    \/ Countdown
    \/ ResetTimer
    \/ SkipToNext
    \/ SessionCompleted

SpecTimer == TimerInit /\ [][TimerNext]_vars

(***************************************************************************)
(* The hooks that write to the database (src/unnamed/part_001, part_002,   *)
(* part_004).  A call of a hook's mutationFn runs in a slot; every await   *)
(* of a request is one step, so the steps of two calls interleave.  An     *)
(* absent value (undefined, or a column left to its default) is <<>>.      *)
(***************************************************************************)
MaxCalls == 3             \* calls of mutationFn started in one run

Callers == {1, 2}         \* calls that can be in flight together (two tabs, or
                          \* two mutations of one page)

IdleCall == [hook |-> "none", pc |-> "idle", variables |-> <<>>, read |-> <<>>]

AllIdle == \A c \in Callers : calls[c] = IdleCall

\* the call in slot c, started with its variables; "if (!user) throw" comes first
Started(c, hook, variables, firstStep) ==
    [calls EXCEPT ![c] = [hook |-> hook,
                          pc |-> IF user = <<>> THEN "error" ELSE firstStep,
                          variables |-> <<variables>>,
                          read |-> <<>>]]

CanStart(c) == calls[c] = IdleCall /\ ledger.started < MaxCalls

At(c, hook, pc) == calls[c].hook = hook /\ calls[c].pc = pc

Goto(c, pc) == [calls EXCEPT ![c].pc = pc]

\* onSuccess / onError: the call is over
SettleCall(c) ==
    /\ component \in {"exams", "progress", "streak", "generate"}
    /\ calls[c].pc \in {"success", "error"}
    /\ calls' = [calls EXCEPT ![c] = IdleCall]
    /\ UNCHANGED <<notBackend, user, exams, dailyProgress, profile, studySessions,
                   ledger>>

(***************************************************************************)
(* useCreateExam and useUpdateExam                                         *)
(***************************************************************************)
MaxExams == 4             \* rows of the table "exams"

ActiveArgs == {<<>>, <<TRUE>>, <<FALSE>>}

ExamsInit ==
    /\ component = "exams"
    /\ now = NowTick
    /\ daysUntilExam = 30
    /\ PriorityUnused
    /\ ScheduleUnused
    /\ ReadinessUnused
    /\ RebalanceUnused
    /\ user \in {<<>>, <<"u1">>}
    /\ topicsTable = <<>>
    /\ revisionHistory = <<>>
    /\ mutations = <<>>
    /\ IntervalsUnused
    /\ exams \in {<<[user_id |-> "u2", is_active |-> TRUE]>>,
                  <<[user_id |-> "u2", is_active |-> TRUE],
                    [user_id |-> "u1", is_active |-> TRUE]>>}
    /\ dailyProgress = <<>>
    /\ profile = <<>>
    /\ studySessions = <<>>
    /\ calls = [c \in Callers |-> IdleCall]
    /\ ledger = [started |-> 0]
    /\ TimerUnused

\* createExam.mutate(exam)
MutateCreateExam(c) ==
    /\ component = "exams"
    /\ CanStart(c)
    /\ \E a \in ActiveArgs :
          calls' = Started(c, "useCreateExam", [is_active |-> a],
                           IF a = <<TRUE>> THEN "deactivate" ELSE "write")
    /\ ledger' = [ledger EXCEPT !.started = @ + 1]
    /\ UNCHANGED <<notBackend, user, exams, dailyProgress, profile, studySessions>>

\* updateExam.mutate({id, ...updates})
MutateUpdateExam(c) ==
    /\ component = "exams"
    /\ CanStart(c)
    /\ \E id \in 1..Len(exams), a \in ActiveArgs :
          calls' = Started(c, "useUpdateExam", [id |-> id, is_active |-> a],
                           IF a = <<TRUE>> THEN "deactivate" ELSE "write")
    /\ ledger' = [ledger EXCEPT !.started = @ + 1]
    /\ UNCHANGED <<notBackend, user, exams, dailyProgress, profile, studySessions>>

\* update({is_active: false}).eq("user_id", user.id), and .neq("id", id) in
\* useUpdateExam; its error is not looked at
DeactivateExams(c) ==
    /\ component = "exams"
    /\ calls[c].pc = "deactivate"
    /\ \/ exams' = [i \in 1..Len(exams) |->
                       IF /\ exams[i].user_id = user[1]
                          /\ ~(/\ calls[c].hook = "useUpdateExam"
                                /\ i = calls[c].variables[1].id)
                       THEN [exams[i] EXCEPT !.is_active = FALSE]
                       ELSE exams[i]]
       \/ UNCHANGED exams
    /\ calls' = Goto(c, "write")
    /\ UNCHANGED <<notBackend, user, dailyProgress, profile, studySessions, ledger>>

\* insert({...exam, user_id}); is_active has the default true
InsertExam(c) ==
    /\ component = "exams"
    /\ At(c, "useCreateExam", "write")
    /\ \/ /\ Len(exams) < MaxExams
          /\ LET a == calls[c].variables[1].is_active
             IN exams' = Append(exams, [user_id |-> user[1],
                                        is_active |-> IF a = <<>> THEN TRUE ELSE a[1]])
          /\ calls' = Goto(c, "success")
       \/ /\ calls' = Goto(c, "error")
          /\ UNCHANGED exams
    /\ UNCHANGED <<notBackend, user, dailyProgress, profile, studySessions, ledger>>

\* update(updates).eq("id", id).eq("user_id", user.id).select().single()
UpdateExam(c) ==
    /\ component = "exams"
    /\ At(c, "useUpdateExam", "write")
    /\ LET v == calls[c].variables[1]
       IN \/ /\ exams[v.id].user_id = user[1]
             /\ exams' = IF v.is_active = <<>> THEN exams
                         ELSE [exams EXCEPT ![v.id].is_active = v.is_active[1]]
             /\ calls' = Goto(c, "success")
          \/ /\ calls' = Goto(c, "error")
             /\ UNCHANGED exams
    /\ UNCHANGED <<notBackend, user, dailyProgress, profile, studySessions, ledger>>

ExamsNext ==
    \E c \in Callers :
        \/ MutateCreateExam(c)
        \/ MutateUpdateExam(c)
        \/ DeactivateExams(c)
        \/ InsertExam(c)
        \/ UpdateExam(c)
        \/ SettleCall(c)

SpecExams == ExamsInit /\ [][ExamsNext]_vars

(***************************************************************************)
(* useIncrementDailyProgress                                               *)
(***************************************************************************)
Today == 1                \* format(new Date(), "yyyy-MM-dd")

MinuteArgs == {1, 2}      \* completedMinutes
SessionArgs == {1, 2}     \* sessionsCompleted (1 if left out)

\* a row of daily_progress with the defaults of its columns
ProgressRow(u, date) ==
    [user_id |-> u, date |-> date, planned_minutes |-> 0, completed_minutes |-> 0,
     sessions_planned |-> 0, sessions_completed |-> 0]

\* the positions of the rows selected by .eq("user_id", u).eq("date", date)
ProgressRows(u, date) ==
    {i \in 1..Len(dailyProgress) :
        dailyProgress[i].user_id = u /\ dailyProgress[i].date = date}

ProgressInit ==
    /\ component = "progress"
    /\ now = NowTick
    /\ daysUntilExam = 30
    /\ PriorityUnused
    /\ ScheduleUnused
    /\ ReadinessUnused
    /\ RebalanceUnused
    /\ user \in {<<>>, <<"u1">>}
    /\ topicsTable = <<>>
    /\ revisionHistory = <<>>
    /\ mutations = <<>>
    /\ IntervalsUnused
    /\ exams = <<>>
    /\ dailyProgress \in {<<>>, <<ProgressRow("u1", Today)>>,
                          <<ProgressRow("u2", Today), ProgressRow("u1", Today - 1)>>}
    /\ profile = <<>>
    /\ studySessions = <<>>
    /\ calls = [c \in Callers |-> IdleCall]
    /\ ledger = [started |-> 0, succeeded |-> 0, completedMinutes |-> 0,
                 sessionsCompleted |-> 0]
    /\ TimerUnused

\* incrementProgress.mutate({completedMinutes, sessionsCompleted})
MutateIncrementDailyProgress(c) ==
    /\ component = "progress"
    /\ CanStart(c)
    /\ \E m \in MinuteArgs, n \in SessionArgs :
          calls' = Started(c, "useIncrementDailyProgress",
                           [completedMinutes |-> m, sessionsCompleted |-> n], "select")
    /\ ledger' = [ledger EXCEPT !.started = @ + 1]
    /\ UNCHANGED <<notBackend, user, exams, dailyProgress, profile, studySessions>>

\* select("*").eq("user_id", user.id).eq("date", today).single(): the row, or
\* null when there is none and when the request fails (the error is dropped)
SelectTodaysProgress(c) ==
    /\ component \in {"progress", "completion"}
    /\ At(c, "useIncrementDailyProgress", "select")
    /\ \E existing \in {<<>>} \cup {<<dailyProgress[i]>> : i \in ProgressRows(user[1], Today)} :
          calls' = [calls EXCEPT ![c].read = existing, ![c].pc = "write"]
    /\ UNCHANGED <<notBackend, user, exams, dailyProgress, profile, studySessions,
                   ledger>>

\* the update of the row read, or the insert of a first row; the table has
\* UNIQUE(user_id, date)
WriteTodaysProgress(c) ==
    /\ component \in {"progress", "completion"}
    /\ At(c, "useIncrementDailyProgress", "write")
    /\ LET v == calls[c].variables[1]
           existing == calls[c].read
           rows == ProgressRows(user[1], Today)
           done == /\ calls' = Goto(c, "success")
                   /\ ledger' = [ledger EXCEPT
                                    !.succeeded = @ + 1,
                                    !.completedMinutes = @ + v.completedMinutes,
                                    !.sessionsCompleted = @ + v.sessionsCompleted]
       IN \/ /\ existing /= <<>>
             /\ rows /= {}
             /\ dailyProgress' =
                    [i \in 1..Len(dailyProgress) |->
                        IF i \in rows
                        THEN [dailyProgress[i] EXCEPT
                                !.completed_minutes =
                                    existing[1].completed_minutes + v.completedMinutes,
                                !.sessions_completed =
                                    existing[1].sessions_completed + v.sessionsCompleted]
                        ELSE dailyProgress[i]]
             /\ done
          \/ /\ existing = <<>>
             /\ rows = {}
             /\ dailyProgress' =
                    Append(dailyProgress,
                           [ProgressRow(user[1], Today) EXCEPT
                              !.completed_minutes = v.completedMinutes,
                              !.sessions_completed = v.sessionsCompleted])
             /\ done
          \/ /\ calls' = Goto(c, "error")
             /\ UNCHANGED <<dailyProgress, ledger>>
    /\ UNCHANGED <<notBackend, user, exams, profile, studySessions>>

ProgressNext ==
    \E c \in Callers :
        \/ MutateIncrementDailyProgress(c)
        \/ SelectTodaysProgress(c)
        \/ WriteTodaysProgress(c)
        \/ SettleCall(c)

SpecProgress == ProgressInit /\ [][ProgressNext]_vars

(***************************************************************************)
(* useUpdateStreak                                                         *)
(***************************************************************************)
\* the streaks a profile starts a run with
StoredStreaks ==
    {[current_streak |-> 0, longest_streak |-> 0],
     [current_streak |-> 1, longest_streak |-> 2],
     [current_streak |-> 2, longest_streak |-> 2]}

StreakInit ==
    /\ component = "streak"
    /\ now = NowTick
    /\ daysUntilExam = 30
    /\ PriorityUnused
    /\ ScheduleUnused
    /\ ReadinessUnused
    /\ RebalanceUnused
    /\ user \in {<<>>, <<"u1">>}
    /\ topicsTable = <<>>
    /\ revisionHistory = <<>>
    /\ mutations = <<>>
    /\ IntervalsUnused
    /\ exams = <<>>
    /\ dailyProgress = <<>>
    /\ profile \in StoredStreaks
    /\ studySessions = <<>>
    /\ calls = [c \in Callers |-> IdleCall]
    /\ ledger = [started |-> 0]
    /\ TimerUnused

\* updateStreak.mutate({increment})
MutateUpdateStreak(c) ==
    /\ component = "streak"
    /\ CanStart(c)
    /\ \E increment \in BOOLEAN :
          calls' = Started(c, "useUpdateStreak", [increment |-> increment], "select")
    /\ ledger' = [ledger EXCEPT !.started = @ + 1]
    /\ UNCHANGED <<notBackend, user, exams, dailyProgress, profile, studySessions>>

\* select("current_streak, longest_streak").single(): the row, or no data when
\* the request fails (the error is dropped)
SelectStreaks(c) ==
    /\ component \in {"streak", "completion"}
    /\ At(c, "useUpdateStreak", "select")
    /\ \E data \in {<<>>, <<profile>>} :
          calls' = [calls EXCEPT ![c].read = data, ![c].pc = "write"]
    /\ UNCHANGED <<notBackend, user, exams, dailyProgress, profile, studySessions,
                   ledger>>

\* update({current_streak: newStreak, longest_streak: newLongest})
UpdateStreaks(c) ==
    /\ component \in {"streak", "completion"}
    /\ At(c, "useUpdateStreak", "write")
    /\ LET data == calls[c].read
           currentStreak == IF data = <<>> THEN 0 ELSE data[1].current_streak
           longestStreak == IF data = <<>> THEN 0 ELSE data[1].longest_streak
           newStreak == IF calls[c].variables[1].increment THEN currentStreak + 1 ELSE 0
           newLongest == Max(newStreak, longestStreak)
       IN \/ /\ profile' = [profile EXCEPT !.current_streak = newStreak,
                                            !.longest_streak = newLongest]
             /\ calls' = Goto(c, "success")
          \/ /\ calls' = Goto(c, "error")
             /\ UNCHANGED profile
    /\ UNCHANGED <<notBackend, user, exams, dailyProgress, studySessions, ledger>>

StreakNext ==
    \E c \in Callers :
        \/ MutateUpdateStreak(c)
        \/ SelectStreaks(c)
        \/ UpdateStreaks(c)
        \/ SettleCall(c)

SpecStreak == StreakInit /\ [][StreakNext]_vars

(***************************************************************************)
(* useStartSession, useCompleteSession, useSkipSession: one request each   *)
(***************************************************************************)
\* a row of study_sessions as useBulkCreateSessions inserts it
SessionRow(u, date, minutes) ==
    [user_id |-> u, date |-> date, planned_duration_minutes |-> minutes,
     status |-> "scheduled", started_at |-> <<>>, completed_at |-> <<>>,
     actual_duration_minutes |-> 0]

SessionsInit ==
    /\ component = "sessions"
    /\ now = NowTick
    /\ daysUntilExam = 30
    /\ PriorityUnused
    /\ ScheduleUnused
    /\ ReadinessUnused
    /\ RebalanceUnused
    /\ user \in {<<>>, <<"u1">>}
    /\ topicsTable = <<>>
    /\ revisionHistory = <<>>
    /\ mutations = <<>>
    /\ IntervalsUnused
    /\ exams = <<>>
    /\ dailyProgress = <<>>
    /\ profile = <<>>
    /\ studySessions = <<SessionRow("u1", Today, 2), SessionRow("u2", Today, 2),
                         SessionRow("u1", Today, 1)>>
    /\ calls = <<>>
    /\ ledger = <<>>
    /\ TimerUnused

\* update(changes).eq("id", id).eq("user_id", user.id).select().single():
\* the table after the request succeeded; the request can also fail, and does
\* when no row is selected
UpdatedSessions(id, changes) ==
    IF user /= <<>> /\ studySessions[id].user_id = user[1]
    THEN {studySessions, [studySessions EXCEPT ![id] = changes @@ @]}
    ELSE {studySessions}

StartSession ==
    /\ component = "sessions"
    /\ \E id \in 1..Len(studySessions) :
          studySessions' \in
              UpdatedSessions(id, [status |-> "in_progress", started_at |-> <<now>>])
    /\ UNCHANGED <<notBackend, user, exams, dailyProgress, profile, calls, ledger>>

CompleteSession ==
    /\ component = "sessions"
    /\ \E id \in 1..Len(studySessions), actualMinutes \in MinuteArgs :
          studySessions' \in
              UpdatedSessions(id, [status |-> "completed", completed_at |-> <<now>>,
                                   actual_duration_minutes |-> actualMinutes])
    /\ UNCHANGED <<notBackend, user, exams, dailyProgress, profile, calls, ledger>>

SkipSession ==
    /\ component = "sessions"
    /\ \E id \in 1..Len(studySessions) :
          studySessions' \in UpdatedSessions(id, [status |-> "missed"])
    /\ UNCHANGED <<notBackend, user, exams, dailyProgress, profile, calls, ledger>>

SessionsNext ==
    \/ StartSession
    \/ CompleteSession
    \/ SkipSession

SpecSessions == SessionsInit /\ [][SessionsNext]_vars

(***************************************************************************)
(* useScheduleGenerator: generateScheduleForDate (src/unnamed/part_003)    *)
(* with useBulkCreateSessions and useUpdateDailyProgress                   *)
(***************************************************************************)
GenerateDates == {Today, Today + 1}

\* the topics of the user's subjects when the schedule is generated
StoredSnapshots ==
    {<<e>> : e \in {x \in TopicPool : NeverStudiedTopic(x.topic)}}
    \cup {<<a, b>> : a \in {x \in TopicPool : x.topic.confidence_level = 2},
                     b \in {x \in TopicPool : NeverStudiedTopic(x.topic)}}

GenerateInit ==
    /\ component = "generate"
    /\ now = NowTick
    /\ daysUntilExam = 30
    /\ PriorityUnused
    /\ \E snap \in StoredSnapshots :
          snapshot = [k \in 1..Len(snap) |->
                         [strength |-> snap[k].strength,
                          topic |-> [id |-> k] @@ snap[k].topic]]
    /\ availableMinutes \in {2, 4}
    /\ pomodoroWorkMinutes = 1
    /\ pomodoroBreakMinutes = 1
    /\ called = "none"
    /\ packed = <<>>
    /\ schedule = <<>>
    /\ ReadinessUnused
    /\ RebalanceUnused
    /\ user \in {<<>>, <<"u1">>}
    /\ topicsTable = <<>>
    /\ revisionHistory = <<>>
    /\ mutations = <<>>
    /\ IntervalsUnused
    /\ exams = <<>>
    /\ dailyProgress \in {<<>>, <<ProgressRow("u1", Today)>>}
    /\ profile = <<>>
    /\ studySessions = <<>>
    /\ calls = [c \in Callers |-> IdleCall]
    /\ ledger = [started |-> 0, generated |-> {}]
    /\ TimerUnused

\* generateScheduleForDate(date) up to its first request: the schedule of
\* generateDailySchedule turned into rows; an empty schedule throws
GenerateScheduleForDate(c) ==
    /\ component = "generate"
    /\ CanStart(c)
    /\ \E date \in GenerateDates :
          LET scheduleSessions ==
                  InterleaveSchedule(PackedSchedule(snapshot, availableMinutes,
                                                    pomodoroWorkMinutes,
                                                    pomodoroBreakMinutes, daysUntilExam))
              sessions == [k \in 1..Len(scheduleSessions) |->
                              SessionRow(user[1], date, scheduleSessions[k].durationMinutes)]
          IN calls' = Started(c, "generateScheduleForDate",
                              [date |-> date,
                               sessions |-> IF user = <<>> THEN <<>> ELSE sessions,
                               totalPlannedMinutes |-> SumDurations(scheduleSessions)],
                              IF scheduleSessions = <<>> THEN "error" ELSE "bulkCreate")
    /\ ledger' = [ledger EXCEPT !.started = @ + 1]
    /\ UNCHANGED <<notBackend, user, exams, dailyProgress, profile, studySessions>>

\* await bulkCreate.mutateAsync(sessions): one insert of all the rows
BulkCreateSessions(c) ==
    /\ component = "generate"
    /\ At(c, "generateScheduleForDate", "bulkCreate")
    /\ \/ /\ studySessions' = studySessions \o calls[c].variables[1].sessions
          /\ calls' = Goto(c, "select")
       \/ /\ calls' = Goto(c, "error")
          /\ UNCHANGED studySessions
    /\ UNCHANGED <<notBackend, user, exams, dailyProgress, profile, ledger>>

\* useUpdateDailyProgress: select("id") of the date's row; null when there is
\* none and when the request fails
SelectProgressOfDate(c) ==
    /\ component = "generate"
    /\ At(c, "generateScheduleForDate", "select")
    /\ \E existing \in {<<>>} \cup
                       {<<i>> : i \in ProgressRows(user[1], calls[c].variables[1].date)} :
          calls' = [calls EXCEPT ![c].read = existing, ![c].pc = "write"]
    /\ UNCHANGED <<notBackend, user, exams, dailyProgress, profile, studySessions,
                   ledger>>

\* useUpdateDailyProgress: update(updates) of the date's row, or insert of a
\* first row, with updates = {planned_minutes, sessions_planned}
UpdateDailyProgress(c) ==
    /\ component = "generate"
    /\ At(c, "generateScheduleForDate", "write")
    /\ LET v == calls[c].variables[1]
           rows == ProgressRows(user[1], v.date)
           done == /\ calls' = Goto(c, "success")
                   /\ ledger' = [ledger EXCEPT !.generated = @ \cup {v.date}]
       IN \/ /\ calls[c].read /= <<>>
             /\ rows /= {}
             /\ dailyProgress' =
                    [i \in 1..Len(dailyProgress) |->
                        IF i \in rows
                        THEN [dailyProgress[i] EXCEPT
                                !.planned_minutes = v.totalPlannedMinutes,
                                !.sessions_planned = Len(v.sessions)]
                        ELSE dailyProgress[i]]
             /\ done
          \/ /\ calls[c].read = <<>>
             /\ rows = {}
             /\ dailyProgress' =
                    Append(dailyProgress,
                           [ProgressRow(user[1], v.date) EXCEPT
                              !.planned_minutes = v.totalPlannedMinutes,
                              !.sessions_planned = Len(v.sessions)])
             /\ done
          \/ /\ calls' = Goto(c, "error")
             /\ UNCHANGED <<dailyProgress, ledger>>
    /\ UNCHANGED <<notBackend, user, exams, profile, studySessions>>

GenerateNext ==
    \E c \in Callers :
        \/ GenerateScheduleForDate(c)
        \/ BulkCreateSessions(c)
        \/ SelectProgressOfDate(c)
        \/ UpdateDailyProgress(c)
        \/ SettleCall(c)

SpecGenerate == GenerateInit /\ [][GenerateNext]_vars

(***************************************************************************)
(* Timer: handleCompleteSession (src/unnamed/part_005 171-211).  The page  *)
(* has one handler; slot Handler of calls holds its position, and slot     *)
(* Awaited the mutation it is waiting for.                                 *)
(***************************************************************************)
Handler == 2
Awaited == 1

ConfidenceArgs == {2, 4}  \* newConfidence chosen in the dialog

CompletionInit ==
    /\ component = "completion"
    /\ now = NowTick
    /\ daysUntilExam = 30
    /\ PriorityUnused
    /\ ScheduleUnused
    /\ ReadinessUnused
    /\ RebalanceUnused
    /\ user = <<"u1">>
    /\ topicsTable = [id \in {1} |->
                         [user_id |-> "u1", confidence_level |-> 3, revision_count |-> 0,
                          last_studied_at |-> <<>>, next_revision_at |-> <<>>]]
    /\ revisionHistory = <<>>
    /\ mutations = <<>>
    /\ IntervalsUnused
    /\ exams = <<>>
    /\ dailyProgress \in {<<>>, <<ProgressRow("u1", Today)>>}
    /\ profile \in StoredStreaks
    /\ studySessions \in
          {<<r>> : r \in {SessionRow("u1", Today, 2),
                          [SessionRow("u1", Today, 2) EXCEPT !.status = "in_progress",
                                                             !.started_at = <<NowTick>>]}}
    /\ calls = [c \in Callers |-> IdleCall]
    /\ ledger = [started |-> 0, succeeded |-> 0, completedMinutes |-> 0,
                 sessionsCompleted |-> 0, finished |-> 0,
                 streakBefore |-> profile.current_streak]
    /\ TimerUnused

\* the button "Complete" of the dialog: handleCompleteSession up to its first
\* await, with the session and the minutes the page holds
HandleCompleteSession ==
    /\ component = "completion"
    /\ CanStart(Handler)
    /\ calls[Awaited] = IdleCall
    /\ \E finalMinutes \in MinuteArgs, newConfidence \in ConfidenceArgs :
          calls' = [calls EXCEPT ![Handler] =
                       [hook |-> "handleCompleteSession", pc |-> "completeSession",
                        variables |-> <<[id |-> 1, finalMinutes |-> finalMinutes,
                                         newConfidence |-> newConfidence,
                                         revisionCount |-> topicsTable[1].revision_count + 1]>>,
                        read |-> <<>>]]
    /\ ledger' = [ledger EXCEPT !.started = @ + 1]
    /\ UNCHANGED <<notBackend, user, exams, dailyProgress, profile, studySessions>>

\* await completeSession.mutateAsync(...): one update; when it fails the catch
\* block ends the handler, as it does for each of the awaits below
AwaitCompleteSession ==
    /\ component = "completion"
    /\ At(Handler, "handleCompleteSession", "completeSession")
    /\ LET v == calls[Handler].variables[1]
       IN \/ /\ studySessions' =
                    [studySessions EXCEPT ![v.id] =
                        [status |-> "completed", completed_at |-> <<now>>,
                         actual_duration_minutes |-> v.finalMinutes] @@ @]
             /\ calls' = Goto(Handler, "updateTopicConfidence")
          \/ /\ calls' = [calls EXCEPT ![Handler] = IdleCall]
             /\ UNCHANGED studySessions
    /\ UNCHANGED <<notBackend, user, exams, dailyProgress, profile, ledger>>

\* await updateTopicConfidence.mutateAsync(...): one update of the topic; then
\* incrementProgress.mutateAsync(...) runs up to its first request
AwaitUpdateTopicConfidence ==
    /\ component = "completion"
    /\ At(Handler, "handleCompleteSession", "updateTopicConfidence")
    /\ LET v == calls[Handler].variables[1]
           days == calculateNextRevision(v.newConfidence, v.revisionCount)
       IN \/ /\ topicsTable' =
                    [topicsTable EXCEPT ![1] =
                        [confidence_level |-> v.newConfidence,
                         revision_count |-> v.revisionCount,
                         last_studied_at |-> <<now>>,
                         next_revision_at |-> <<now + days.n * DayTicks>>]
                        @@ @]
             /\ calls' =
                    [Started(Awaited, "useIncrementDailyProgress",
                             [completedMinutes |-> v.finalMinutes, sessionsCompleted |-> 1],
                             "select")
                     EXCEPT ![Handler].pc = "incrementProgress"]
          \/ /\ calls' = [calls EXCEPT ![Handler] = IdleCall]
             /\ UNCHANGED topicsTable
    /\ UNCHANGED <<sharedVars, algorithmVars, revisionHistory, mutations, intervalVars,
                   timerVars, user, exams, dailyProgress, profile, studySessions, ledger>>

\* the call of useIncrementDailyProgress is over: on success
\* updateStreak.mutateAsync({increment: true}) runs up to its first request
ProgressSettled ==
    /\ component = "completion"
    /\ At(Handler, "handleCompleteSession", "incrementProgress")
    /\ \/ /\ calls[Awaited].pc = "success"
          /\ calls' = [Started(Awaited, "useUpdateStreak", [increment |-> TRUE], "select")
                       EXCEPT ![Handler].pc = "updateStreak"]
       \/ /\ calls[Awaited].pc = "error"
          /\ calls' = [c \in Callers |-> IdleCall]
    /\ UNCHANGED <<notBackend, user, exams, dailyProgress, profile, studySessions,
                   ledger>>

\* the call of useUpdateStreak is over: on success the timer state is reset
\* and the dialog closed
StreakSettled ==
    /\ component = "completion"
    /\ At(Handler, "handleCompleteSession", "updateStreak")
    /\ \/ /\ calls[Awaited].pc = "success"
          /\ ResetTimerState
          /\ ledger' = [ledger EXCEPT !.finished = @ + 1]
       \/ /\ calls[Awaited].pc = "error"
          /\ UNCHANGED <<timerVars, ledger>>
    /\ calls' = [c \in Callers |-> IdleCall]
    /\ UNCHANGED <<sharedVars, algorithmVars, revisionsVars, intervalVars, exams,
                   dailyProgress, profile, studySessions>>

CompletionNext ==
    \/ HandleCompleteSession
    \/ AwaitCompleteSession
    \/ AwaitUpdateTopicConfidence
    \/ SelectTodaysProgress(Awaited)
    \/ WriteTodaysProgress(Awaited)
    \/ ProgressSettled
    \/ SelectStreaks(Awaited)
    \/ UpdateStreaks(Awaited)
    \/ StreakSettled

SpecCompletion == CompletionInit /\ [][CompletionNext]_vars

(***************************************************************************)
(* The whole model                                                         *)
(***************************************************************************)
Init ==
    \/ PriorityInit
    \/ ScheduleInit
    \/ ScheduleEdgeInit
    \/ InterleaveInit
    \/ ReadinessInit
    \/ RebalanceInit
    \/ RevisionsInit
    \/ IntervalsInit
    \/ TimerInit
    \/ ExamsInit
    \/ ProgressInit
    \/ StreakInit
    \/ SessionsInit
    \/ GenerateInit
    \/ CompletionInit

Next ==
    \/ PriorityNext
    \/ ScheduleNext
    \/ InterleaveSessions
    \/ ReadinessNext
    \/ RebalanceNext
    \/ RevisionsNext
    \/ IntervalsNext
    \/ TimerNext
    \/ ExamsNext
    \/ ProgressNext
    \/ StreakNext
    \/ SessionsNext
    \/ GenerateNext
    \/ CompletionNext

Spec == Init /\ [][Next]_vars

(***************************************************************************)
(* Properties                                                              *)
(***************************************************************************)
Generated == called = "generateDailySchedule"
Legacy == called = "legacy"

\* every session of a schedule, in the order it was packed, fits the minutes left
FitsRemaining(sessions) ==
    \A k \in 1..Len(sessions) :
        sessions[k].durationMinutes
            <= availableMinutes - SumDurations(SubSeq(sessions, 1, k - 1))

NeverStudied(t) == t.last_studied_at = <<>> /\ t.completed_hours = 0

\* C1: in both generators every session is at most the minutes remaining when it
\* was packed, and the durations of the returned schedule sum to at most
\* availableMinutes.
C1_SessionsWithinBudget ==
    /\ Generated => /\ FitsRemaining(packed)
                    /\ SumDurations(schedule) <= availableMinutes
    /\ Legacy => /\ FitsRemaining(schedule)
                 /\ SumDurations(schedule) <= availableMinutes

\* a run of the revision-aware generator that used up the budget with at least two
\* sessions, the last of them cut down to the minutes left
C1_Witness ==
    /\ Generated
    /\ Len(packed) >= 2
    /\ SumDurations(schedule) = availableMinutes
    /\ availableMinutes > 0
    /\ packed[Len(packed)].type = "learning"
    /\ packed[Len(packed)].durationMinutes
          < 2 * (pomodoroWorkMinutes + pomodoroBreakMinutes)
    /\ snapshot[packed[Len(packed)].topicId].topic.last_studied_at = <<>>

\* C2: the "revision" sessions of a schedule of the revision-aware generator take
\* at most floor(availableMinutes * 0.40) minutes in total.
C2_RevisionWithinCap ==
    Generated =>
        SumDurations(SelectSeq(schedule, LAMBDA x : x.type = "revision"))
            <= (availableMinutes * 40) \div 100

\* C3: a topic with hours completed, neither date set and confidence 4 or more is
\* reported as not eligible for revision.
C3_NoDateNotEligible ==
    (/\ eligibility /= <<>>
     /\ topic.completed_hours > 0
     /\ topic.last_studied_at = <<>>
     /\ topic.last_revision_date = <<>>
     /\ topic.confidence_level >= 4)
        => ~eligibility[1].isEligible

\* C4: a topic never studied and without completed hours is never eligible for
\* revision, and the revision-aware generator gives it no revision or recall
\* session.
C4_NeverStudiedNotEligible ==
    /\ (eligibility /= <<>> /\ NeverStudied(topic)) => ~eligibility[1].isEligible
    /\ Generated =>
          \A k \in 1..Len(schedule) :
              NeverStudied(snapshot[schedule[k].topicId].topic)
                  => schedule[k].type = "learning"

\* a schedule with a session for a never-studied topic whose revision date is old
\* and whose revision count is 3, next to a revision or recall session
C4_Witness ==
    /\ Generated
    /\ \E k \in 1..Len(schedule) :
          LET t == snapshot[schedule[k].topicId].topic
          IN /\ NeverStudied(t)
             /\ t.last_revision_date /= <<>>
             /\ t.revision_count >= 3
             /\ schedule[k].type = "learning"
    /\ \E k \in 1..Len(schedule) : schedule[k].type /= "learning"

\* the inputs the functions are documented for
ValidTopic(t) ==
    /\ t.confidence_level \in 1..5
    /\ t.last_studied_at /= <<>> => JsGeq(DaysSince(t.last_studied_at), Num(0))
    /\ t.last_revision_date /= <<>> => JsGeq(DaysSince(t.last_revision_date), Num(0))

InScoreRange(x) == IsInteger(x) /\ 0 <= x.n /\ x.n <= 100

\* C5: for valid inputs the learning priority and the revision priority are
\* integers in 0..100.
C5_ScoresInRange ==
    /\ (priorityResult /= <<>> /\ ValidTopic(topic)) => InScoreRange(priorityResult[1].score)
    /\ (revisionResult /= <<>> /\ ValidTopic(topic)) => InScoreRange(revisionResult[1].score)

\* a valid topic whose weighted sum is negative and whose score is clamped to 0
C5_Witness ==
    /\ priorityResult /= <<>>
    /\ ValidTopic(topic)
    /\ JsLt(TopicPriorityTotal(topic, subjectStrength, daysUntilExam), Num(0))
    /\ priorityResult[1].score = Num(0)

\* C6: extraMinutesPerDay is at most round(dailyStudyMinutes * maxOverloadPct / 100).
C6_ExtraWithinCap ==
    rebalance /= <<>> =>
        JsLeq(rebalance[1].extraMinutesPerDay,
              MathRound(Frac(dailyStudyMinutes * maxOverloadPercentage, 100)))

IsNatural(x) == IsInteger(x) /\ x.n >= 0

\* C7: with remainingDays >= 1 no division by zero is evaluated and the result
\* is two non-negative integers with daysToRecover <= remainingDays; with
\* remainingDays <= 0 both are 0.
C7_WellDefined ==
    rebalance /= <<>> =>
        IF remainingDays >= 1
        THEN /\ maxExtraPerDay(dailyStudyMinutes, maxOverloadPercentage) /= Num(0)
             /\ rebalance[1].daysToRecover /= Num(0)
             /\ IsNatural(rebalance[1].extraMinutesPerDay)
             /\ IsNatural(rebalance[1].daysToRecover)
             /\ rebalance[1].daysToRecover.n <= remainingDays
        ELSE /\ rebalance[1].extraMinutesPerDay = Num(0)
             /\ rebalance[1].daysToRecover = Num(0)

\* the percentages calculateExamReadiness can return
Percentages(completion, confidence, streak, days) ==
    {r.percentage : r \in calculateExamReadiness(completion, confidence, streak, days)}

\* every percentage of the call is at least the one returned
NotBelowReturned(completion, confidence, streak, days) ==
    \A p \in Percentages(completion, confidence, streak, days) :
        JsGeq(p, readiness[1].percentage)

\* C8: the readiness percentage does not decrease when one of the four inputs
\* grows and the other three stay.  (Two calls whose normalized inputs are all
\* equal are the same computation and return the same value; the calls compared
\* are those that differ in a normalized input.)
C8_ReadinessMonotone ==
    readiness /= <<>> =>
        /\ \A c \in CompletionPercentages :
              c > completionPercentage =>
                  NotBelowReturned(c, averageConfidence, consistencyStreak, daysUntilExam)
        /\ \A c \in ConfidenceTenths :
              JsGt(Frac(c, 10), averageConfidence) =>
                  NotBelowReturned(completionPercentage, Frac(c, 10), consistencyStreak,
                                   daysUntilExam)
        /\ \A st \in Streaks :
              (st > consistencyStreak
               /\ normalizedStreak(st) /= normalizedStreak(consistencyStreak)) =>
                  NotBelowReturned(completionPercentage, averageConfidence, st,
                                   daysUntilExam)
        /\ \A d \in ReadinessExamDays :
              (d > daysUntilExam /\ normalizedTime(d) /= normalizedTime(daysUntilExam)) =>
                  NotBelowReturned(completionPercentage, averageConfidence,
                                   consistencyStreak, d)

\* a result for an exam that has passed and a streak of 13 days: a later exam and
\* a longer streak each give a strictly higher percentage
C8_Witness ==
    /\ readiness /= <<>>
    /\ daysUntilExam <= 0
    /\ consistencyStreak = 13
    /\ \A p \in Percentages(completionPercentage, averageConfidence, consistencyStreak, 1) :
          JsGt(p, readiness[1].percentage)
    /\ \A p \in Percentages(completionPercentage, averageConfidence, 15, daysUntilExam) :
          JsGt(p, readiness[1].percentage)

\* C9: the readiness percentage is within 0..100 whatever the inputs are.
C9_PercentageInRange ==
    readiness /= <<>> => InScoreRange(readiness[1].percentage)

\* C10: with a confidence_level above 5 the learning priority and the revision
\* priority are those of the same topic with confidence_level 5.
C10_ConfidenceAboveFive ==
    LET capped == [topic EXCEPT !.confidence_level = 5]
    IN /\ (priorityResult /= <<>> /\ topic.confidence_level > 5) =>
              priorityResult[1].score
                  = calculateTopicPriority(capped, subjectStrength, daysUntilExam).score
       /\ (revisionResult /= <<>> /\ topic.confidence_level > 5) =>
              revisionResult[1].score
                  = calculateRevisionPriority(capped, subjectStrength, daysUntilExam).score

\* the same topic with every date that lies after Date.now() moved to Date.now()
ZeroAged(t) ==
    [t EXCEPT !.last_studied_at =
                  IF @ /= <<>> /\ @[1] > now THEN <<now>> ELSE @,
              !.last_revision_date =
                  IF @ /= <<>> /\ @[1] > now THEN <<now>> ELSE @]

HasFutureDate(t) == ZeroAged(t) /= t

\* C11: a topic with a date later than the current time gets the revision
\* priority, the learning priority and the eligibility verdict of the same topic
\* with that date at the current time (days-since 0).
C11_NegativeDaysSinceIsZero ==
    HasFutureDate(topic) =>
        /\ revisionResult /= <<>> =>
              revisionResult[1].score
                  = calculateRevisionPriority(ZeroAged(topic), subjectStrength,
                                              daysUntilExam).score
        /\ priorityResult /= <<>> =>
              priorityResult[1].score
                  = calculateTopicPriority(ZeroAged(topic), subjectStrength,
                                           daysUntilExam).score
        /\ eligibility /= <<>> =>
              eligibility[1] = checkRevisionEligibility(ZeroAged(topic), daysUntilExam)

\* the call calculateExamReadiness(0, 1, 0, 30) has been made
LowestInputsCall ==
    /\ readiness /= <<>>
    /\ completionPercentage = 0
    /\ averageConfidence = Num(1)
    /\ consistencyStreak = 0
    /\ daysUntilExam = 30

\* C12: calculateExamReadiness(0, 1, 0, 30) returns "not_ready" with the confidence
\* of 1 contributing 7 points next to the 10 points of the time factor: the
\* percentage is 17.
C12_LowestInputs ==
    LowestInputsCall =>
        /\ readiness[1].status = "not_ready"
        /\ readiness[1].percentage = Num(17)

C12_Witness ==
    /\ LowestInputsCall
    /\ readiness[1].status = "not_ready"

\* C12 as stated: calculateExamReadiness(0, 1, 0, 30) returns "not_ready" and only
\* the time factor contributes, so the percentage is 10.
C12_TimeFactorOnly ==
    LowestInputsCall =>
        /\ readiness[1].status = "not_ready"
        /\ readiness[1].percentage = Num(10)

\* the inputs calculateExamReadiness is documented for
ValidReadinessInputs ==
    /\ completionPercentage \in 0..100
    /\ JsGeq(averageConfidence, Num(0))
    /\ JsLeq(averageConfidence, Num(5))
    /\ consistencyStreak >= 0

\* 40*completion/100 + 35*confidence/5 + 15*min(streak/14, 1)
\*     + 10*(days > 0 ? min(days/30, 1) : 0), as a real number
WeightedSum ==
    JsAdd(JsAdd(JsAdd(Frac(40 * completionPercentage, 100),
                      JsDiv(JsMul(Num(35), averageConfidence), Num(5))),
                JsMul(Num(15), MathMin(Frac(consistencyStreak, 14), Num(1)))),
          JsMul(Num(10), IF daysUntilExam > 0
                         THEN MathMin(Frac(daysUntilExam, 30), Num(1)) ELSE Num(0)))

\* the status is decided by the percentage, with inclusive lower bounds 80, 60, 35
StatusByThreshold(r) ==
    /\ r.status = "exam_ready" <=> JsGeq(r.percentage, Num(80))
    /\ r.status = "almost_ready" <=>
          (JsGeq(r.percentage, Num(60)) /\ JsLt(r.percentage, Num(80)))
    /\ r.status = "improving" <=>
          (JsGeq(r.percentage, Num(35)) /\ JsLt(r.percentage, Num(60)))
    /\ r.status = "not_ready" <=> JsLt(r.percentage, Num(35))

BestInputsCall ==
    /\ readiness /= <<>>
    /\ completionPercentage = 100
    /\ averageConfidence = Num(5)
    /\ consistencyStreak = 14
    /\ daysUntilExam = 30

\* C13: for valid inputs the percentage is round(weighted sum), a half rounding
\* up; the status follows the thresholds 80, 60 and 35 with inclusive lower
\* bounds; (100, 5, 14, 30) gives 100 and "exam_ready".
C13_RoundOfWeightedSum ==
    (readiness /= <<>> /\ ValidReadinessInputs) =>
        /\ readiness[1].percentage = MathFloor(JsAdd(WeightedSum, Frac(1, 2)))
        /\ StatusByThreshold(readiness[1])
        /\ BestInputsCall =>
              readiness[1] = [status |-> "exam_ready", percentage |-> Num(100)]

\* C14: the step that ends a call of useRecordRevision's mutationFn with success
\* leaves the topic's revision_count one greater than it was, and the step
\* before it has appended a row for the topic to revision_history.
C14_RevisionCountIncremented ==
    [][\A m \in MutationSlots :
          /\ (mutations[m].pc = "insert" /\ mutations'[m].pc = "update") =>
                /\ Len(revisionHistory') = Len(revisionHistory) + 1
                /\ revisionHistory'[Len(revisionHistory')].topic_id
                      = mutations[m].variables[1].topicId
          /\ (mutations[m].pc = "update" /\ mutations'[m].pc = "success") =>
                topicsTable'[mutations[m].variables[1].topicId].revision_count
                    = topicsTable[mutations[m].variables[1].topicId].revision_count + 1]_vars

\* C15: no session of either generator is for a completed topic.
C15_CompletedTopicsExcluded ==
    (Generated \/ Legacy) =>
        \A k \in 1..Len(schedule) : ~snapshot[schedule[k].topicId].topic.is_completed

\* a snapshot with a completed topic ahead of an open one, a schedule with a
\* session for the open one, and time left over for one more session
C15_Witness ==
    /\ Generated \/ Legacy
    /\ Len(snapshot) >= 2
    /\ snapshot[1].topic.is_completed
    /\ schedule /= <<>>
    /\ SumDurations(schedule) + pomodoroWorkMinutes + pomodoroBreakMinutes
          <= availableMinutes

NoOpenTopic == \A k \in 1..Len(snapshot) : snapshot[k].topic.is_completed

\* C16: both generators return the empty schedule when the snapshot has no topic
\* that is not completed, and when availableMinutes is less than
\* pomodoroWorkMinutes, also with availableMinutes = 0 and daysUntilExam <= 0.
C16_EmptySchedule ==
    ((Generated \/ Legacy) /\ (NoOpenTopic \/ availableMinutes < pomodoroWorkMinutes))
        => schedule = <<>>

\* the revision-aware generator called the day of the exam or later with three
\* minutes, a pomodoro of four, and a topic eligible for revision: nothing is
\* scheduled although the revision budget (one minute) is not used up
C16_Witness ==
    /\ Generated
    /\ daysUntilExam <= 0
    /\ availableMinutes = 3
    /\ pomodoroWorkMinutes = 4
    /\ revisionBudget(availableMinutes) > 0
    /\ \E k \in 1..Len(snapshot) :
          /\ ~snapshot[k].topic.is_completed
          /\ checkRevisionEligibility(snapshot[k].topic, daysUntilExam).isEligible
    /\ schedule = <<>>

\* the minutes left when the k-th session of the packed schedule was added
RemainingBefore(k) == availableMinutes - SumDurations(SubSeq(packed, 1, k - 1))

\* C17: a "learning" session of the revision-aware generator lasts
\* min(2 * sessionDuration, minutes left) if its topic has no last_studied_at and
\* sessionDuration otherwise; one never-studied topic with 60 minutes, work 25 and
\* break 5 gets exactly one learning session of 60 minutes.
C17_LearningDurations ==
    Generated =>
        LET sessionDuration == pomodoroWorkMinutes + pomodoroBreakMinutes
        IN /\ \A k \in 1..Len(packed) :
                 packed[k].type = "learning" =>
                     packed[k].durationMinutes
                         = IF snapshot[packed[k].topicId].topic.last_studied_at = <<>>
                           THEN Min(2 * sessionDuration, RemainingBefore(k))
                           ELSE sessionDuration
           /\ (/\ HourWithDefaults
               /\ Len(snapshot) = 1
               /\ NeverStudied(snapshot[1].topic)
               /\ ~snapshot[1].topic.is_completed) =>
                 /\ Len(schedule) = 1
                 /\ schedule[1].type = "learning"
                 /\ schedule[1].durationMinutes = 60

\* the scenario of the claim has run
C17_Witness ==
    /\ Generated
    /\ HourWithDefaults
    /\ Len(snapshot) = 1
    /\ NeverStudied(snapshot[1].topic)
    /\ Len(schedule) = 1
    /\ schedule[1].durationMinutes = 60

\* C18: in the revision-aware generator every "recall" session lasts exactly
\* pomodoroWorkMinutes and every "revision" session exactly
\* pomodoroWorkMinutes + pomodoroBreakMinutes.
C18_NoPartialSession ==
    Generated =>
        \A k \in 1..Len(schedule) :
            /\ schedule[k].type = "recall" =>
                  schedule[k].durationMinutes = pomodoroWorkMinutes
            /\ schedule[k].type = "revision" =>
                  schedule[k].durationMinutes = pomodoroWorkMinutes + pomodoroBreakMinutes

\* C19: in the learning priority the completion factor contributes between 0 and
\* 5 points whatever completed_hours >= 0 is, and 0 points when
\* estimated_hours <= 0.
C19_CompletionFactorClamped ==
    (priorityResult /= <<>> /\ topic.completed_hours >= 0) =>
        /\ JsGeq(completionContribution(topic), Num(0))
        /\ JsLeq(completionContribution(topic), Num(5))
        /\ topic.estimated_hours <= 0 => completionContribution(topic) = Num(0)

IsRevision(x) == x.type = "revision"
IsOther(x) == x.type /= "revision"

\* how many of the first k sessions of the returned schedule are revisions, others
RevisionsUpTo(k) == Len(SelectSeq(SubSeq(schedule, 1, k), IsRevision))
OthersUpTo(k) == Len(SelectSeq(SubSeq(schedule, 1, k), IsOther))

\* C20: the returned schedule holds the packed sessions, the revisions in their
\* packed order and the others in theirs; the j-th revision comes after exactly
\* min(2j, number of others) other sessions (other, other, revision); and two
\* revisions are adjacent only when no other session comes after them.
C20_Interleaved ==
    (Generated \/ called = "interleaved") =>
        /\ Len(schedule) = Len(packed)
        /\ SelectSeq(schedule, IsRevision) = SelectSeq(packed, IsRevision)
        /\ SelectSeq(schedule, IsOther) = SelectSeq(packed, IsOther)
        /\ \A k \in 1..Len(schedule) :
              IsRevision(schedule[k]) =>
                  OthersUpTo(k) = Min(2 * RevisionsUpTo(k), OthersUpTo(Len(schedule)))
        /\ \A k \in 1..(Len(schedule) - 1) :
              (IsRevision(schedule[k]) /\ IsRevision(schedule[k + 1])) =>
                  \A j \in (k + 2)..Len(schedule) : IsRevision(schedule[j])

\* a run of the whole generator that moved a revision packed first behind two
\* other sessions
C20_Witness ==
    /\ Generated
    /\ Len(packed) = 3
    /\ IsRevision(packed[1])
    /\ schedule = <<packed[2], packed[3], packed[1]>>
    /\ IsOther(packed[2])
    /\ IsOther(packed[3])

\* the topic has a session in the returned schedule
IsScheduled(id) == \E k \in 1..Len(schedule) : schedule[k].topicId = id

\* C21: in the revision-aware generator, a scheduled candidate has every
\* candidate of its group (revision or learning) with a strictly higher score
\* scheduled too, and no topic id has two sessions.
C21_GreedyByPriority ==
    Generated =>
        LET cands == Candidates(snapshot, daysUntilExam)
        IN /\ \A i, j \in 1..Len(cands) :
                 (/\ cands[i].eligible = cands[j].eligible
                  /\ IsScheduled(cands[i].topic.id)
                  /\ JsGt(cands[j].score, cands[i].score)) =>
                     IsScheduled(cands[j].topic.id)
           /\ \A k, l \in 1..Len(schedule) :
                 schedule[k].topicId = schedule[l].topicId => k = l

\* two candidates of one group, the one collected later with the higher score:
\* it got a session and the one collected first did not
C21_Witness ==
    /\ Generated
    /\ LET cands == Candidates(snapshot, daysUntilExam)
       IN \E i, j \in 1..Len(cands) :
             /\ i < j
             /\ cands[i].eligible = cands[j].eligible
             /\ JsGt(cands[j].score, cands[i].score)
             /\ IsScheduled(cands[j].topic.id)
             /\ ~IsScheduled(cands[i].topic.id)

ValidRevisionInputs == inConfidence \in 1..5 /\ inRevisionCount >= 0

\* C29: for a confidence in 1..5 and a revision count >= 0, both implementations
\* of calculatePostRevisionUpdates return a newConfidence that is an integer in
\* 1..5 and a confidenceDelta equal to newConfidence - confidenceBefore.
C29_ConfidenceDeltaConsistent ==
    (postRevisionUpdates /= <<>> /\ ValidRevisionInputs) =>
        LET r == postRevisionUpdates[1]
        IN /\ IsInteger(r.newConfidence)
           /\ JsGeq(r.newConfidence, Num(1))
           /\ JsLeq(r.newConfidence, Num(5))
           /\ r.confidenceDelta = JsSub(r.newConfidence, Num(inConfidence))

\* C30: for a confidence in 1..5 and a revision count >= 0, calculateNextRevision
\* returns a whole number of days, at least 1, and not more than it returns for
\* the next revision count.
C30_AtLeastOneDay ==
    (nextRevisionDays /= <<>> /\ ValidRevisionInputs) =>
        /\ IsInteger(nextRevisionDays[1])
        /\ JsGeq(nextRevisionDays[1], Num(1))
        /\ JsLeq(nextRevisionDays[1],
                 calculateNextRevision(inConfidence, inRevisionCount + 1))

\* C28: whenever the timer's mode is "longBreak", pomodorosCompleted is a
\* positive multiple of 4.
C28_LongBreakAfterFourth ==
    (component = "timer" /\ mode = "longBreak") =>
        pomodorosCompleted > 0 /\ pomodorosCompleted % 4 = 0

ActiveExams(u) == {i \in 1..Len(exams) : exams[i].user_id = u /\ exams[i].is_active}

\* C22: once the calls of useCreateExam and useUpdateExam are over, at most one
\* exam of the user has is_active = true.
C22_OneActiveExam ==
    (component = "exams" /\ AllIdle) =>
        \A u \in {"u1", "u2"} : Cardinality(ActiveExams(u)) <= 1

\* C23: once n calls of useIncrementDailyProgress have succeeded and none is in
\* flight, the day has exactly one daily_progress row, with completed_minutes
\* and sessions_completed the sums of the n calls' arguments.
C23_NoLostIncrement ==
    (component = "progress" /\ AllIdle /\ ledger.succeeded > 0) =>
        /\ Cardinality(ProgressRows(user[1], Today)) = 1
        /\ \A i \in ProgressRows(user[1], Today) :
              /\ dailyProgress[i].completed_minutes = ledger.completedMinutes
              /\ dailyProgress[i].sessions_completed = ledger.sessionsCompleted

\* C24: over the calls of useUpdateStreak, longest_streak never decreases and
\* is at least current_streak.
C24_LongestStreakKept ==
    [][component = "streak" =>
          /\ profile'.longest_streak >= profile.longest_streak
          /\ profile'.longest_streak >= profile'.current_streak]_vars

\* the moves scheduled -> in_progress -> completed and
\* scheduled / in_progress -> missed
ForwardMoves ==
    {<<"scheduled", "in_progress">>, <<"in_progress", "completed">>,
     <<"scheduled", "missed">>, <<"in_progress", "missed">>}

\* C27: a session that is "completed" stays so whatever useStartSession,
\* useSkipSession or useCompleteSession is called on it, and a status only
\* changes along scheduled -> in_progress -> completed or
\* scheduled / in_progress -> missed.
C27_CompletedIsTerminal ==
    [][component = "sessions" =>
          \A id \in 1..Len(studySessions) :
              \/ studySessions'[id].status = studySessions[id].status
              \/ <<studySessions[id].status, studySessions'[id].status>>
                    \in ForwardMoves]_vars

\* the study_sessions rows of the user for the date
SessionsOfDate(date) ==
    SelectSeq(studySessions, LAMBDA r : r.user_id = user[1] /\ r.date = date)

RECURSIVE SumPlanned(_)
SumPlanned(rows) ==
    IF rows = <<>> THEN 0
    ELSE Head(rows).planned_duration_minutes + SumPlanned(Tail(rows))

\* C26: once calls of generateScheduleForDate for a date have succeeded and
\* none is in flight, the date's daily_progress row has planned_minutes equal to
\* the summed planned_duration_minutes of the study_sessions created for the
\* date, and sessions_planned equal to their number.
C26_PlannedMatchesSessions ==
    (component = "generate" /\ AllIdle) =>
        \A date \in ledger.generated :
            /\ Cardinality(ProgressRows(user[1], date)) = 1
            /\ \A i \in ProgressRows(user[1], date) :
                  /\ dailyProgress[i].planned_minutes = SumPlanned(SessionsOfDate(date))
                  /\ dailyProgress[i].sessions_planned = Len(SessionsOfDate(date))

\* sessions_completed of today's row, 0 while there is none
SessionsCompletedToday ==
    IF ProgressRows("u1", Today) = {} THEN 0
    ELSE dailyProgress[CHOOSE i \in ProgressRows("u1", Today) : TRUE].sessions_completed

\* C25: whatever attempts of handleCompleteSession are made for the session,
\* failed ones and retries included, sessions_completed and current_streak go
\* up by 1 and no more: never by more than 1, and by exactly 1 once an attempt
\* got through.
C25_CountedOnce ==
    component = "completion" =>
        /\ SessionsCompletedToday <= 1
        /\ profile.current_streak <= ledger.streakBefore + 1
        /\ (ledger.finished > 0 /\ AllIdle) =>
              /\ SessionsCompletedToday = 1
              /\ profile.current_streak = ledger.streakBefore + 1

====
